---------------------------- MODULE Spec2Model ----------------------------
(***************************************************************************)
(* FuzzDelSol-Lite: the fuzz loop of fuzzdelsol/src (emulator, transaction *)
(* generator, tracing VM, oracle engine, evaluator, driver).               *)
(*                                                                         *)
(* A Pubkey is modelled by the u64 that Pubkey::new_unique() writes,       *)
(* big-endian, into its first eight bytes (the other 24 bytes are zero for *)
(* every key this program ever holds); the derived Ord on the 32 bytes is  *)
(* then the order of these numbers.  system_program::id() is the all-zero  *)
(* key.                                                                    *)
(***************************************************************************)
EXTENDS Integers, Sequences, FiniteSets, TLC

VARIABLES
    phase,          \* position of the driver inside run_fuzzdelsol
    iters,          \* requested number of iterations
    iter,           \* loop variable i of run_fuzzdelsol
    program_id,     \* the key minted for the program
    elf_bytes,      \* contents read from elf_path (empty when unreadable)
    emu,            \* BlockchainEmulator
    unique_ctr,     \* static counter behind Pubkey::new_unique()
    best_cov_hash,  \* caller-owned fingerprint of the evaluator
    input,          \* mutated byte buffer of the current iteration
    pre_snapshot,   \* snapshot built for the current iteration
    tx,             \* transaction generated from input
    vm,             \* locals of TraceVm::run, its output once the loop ended
    oracles,        \* Oracles of the current iteration
    signals,        \* OracleSignals of the current iteration
    fold_n,         \* number of events of vm.events already folded
    out,            \* EvalOutcome of the current iteration
    files,          \* artifacts written so far: path -> contents
    io_error,       \* TRUE once run_fuzzdelsol returned Err
    runs,           \* history: one record per finished execution
    exit_code       \* exit status of the process once main returned

vars == << phase, iters, iter, program_id, elf_bytes, emu, unique_ctr,
           best_cov_hash, input, pre_snapshot, tx, vm, oracles, signals,
           fold_n, out, files, io_error, runs, exit_code >>

-----------------------------------------------------------------------------
(* Bounds of the model *)

\* longest instruction data drawn for an input buffer
MaxData == 2
\* largest iteration count requested from the driver
MaxIters == 3
\* longest buffer drawn when from_bytes is checked on its own
MaxTxLen == 5
\* longest event stream fed to the oracle engine on its own
MaxEvents == 2

-----------------------------------------------------------------------------
(* Bytes and bit operations on u8 *)

Min(a, b) == IF a < b THEN a ELSE b
Max(a, b) == IF a < b THEN b ELSE a

RECURSIVE Xor(_, _)
\* a ^ b on non-negative integers
Xor(a, b) ==
    IF a = 0 THEN b
    ELSE IF b = 0 THEN a
    ELSE (((a % 2) + (b % 2)) % 2) + 2 * Xor(a \div 2, b \div 2)

\* (b & m) != 0 for a one-bit mask m
Bit(b, m) == (b \div m) % 2 = 1

\* slice.get(idx).copied().unwrap_or(dflt), idx counted from 0
GetOr(bytes, idx, dflt) == IF idx < Len(bytes) THEN bytes[idx + 1] ELSE dflt

\* Vec::contains / BTreeSet membership over a sequence
Contains(s, x) == \E j \in 1..Len(s) : s[j] = x

-----------------------------------------------------------------------------
(* Pubkey *)

\* system_program::id(): 32 zero bytes
SystemProgram == 0

RECURSIVE BigEndian(_, _)
\* the n low bytes of i, most significant first (u64::to_be_bytes for n = 8)
BigEndian(i, n) ==
    IF n = 0 THEN << >>
    ELSE Append(BigEndian(i \div 256, n - 1), i % 256)

\* Pubkey::to_bytes()[0] of a key minted by new_unique
FirstByte(k) == BigEndian(k, 8)[1]

\* the parity rule shared by emulator and generator
attacker_controlled(k) == FirstByte(k) % 2 = 1

-----------------------------------------------------------------------------
(* Ledger emulator (emulator.rs) *)

\* number of pool keys minted besides attacker and user
PoolExtra == 14
\* length of the data buffer of a pool account
DataLen == 64
\* lamports of the attacker and user wallets
WalletLamports == 1000000000
\* lamports of a pool account
PoolLamports == 100000000

RECURSIVE MintKeys(_, _)
\* n successive Pubkey::new_unique() calls starting at counter ctr
MintKeys(ctr, n) ==
    IF n = 0 THEN << >> ELSE << ctr >> \o MintKeys(ctr + 1, n - 1)

\* BlockchainEmulator::new() with the counter at ctr
EmulatorNew(ctr) ==
    LET keys == MintKeys(ctr, 2 + PoolExtra) IN
    [ attacker |-> keys[1],
      user |-> keys[2],
      selectable_accounts |-> keys,
      semantic_seed_hint |-> << >>,
      semantic_layout_hint |-> << >> ]

\* the wallet inserted for attacker and user
Wallet ==
    [ owner |-> SystemProgram, lamports |-> WalletLamports, data |-> << >>,
      is_signer |-> TRUE, is_writable |-> TRUE, is_executable |-> FALSE ]

\* the executable program account
ProgramAccount(program_elf_bytes) ==
    [ owner |-> SystemProgram, lamports |-> 1, data |-> program_elf_bytes,
      is_signer |-> FALSE, is_writable |-> FALSE, is_executable |-> TRUE ]

\* data[i] ^= hint[i] for the first min(len(hint), len(data)) bytes
ApplySeedHint(data, hint) ==
    [ j \in 1..Len(data) |->
        IF j <= Len(hint) THEN Xor(data[j], hint[j]) ELSE data[j] ]

\* data[(len - 1 - i) % len] ^= hint[i], i counted from 0
ApplyLayoutHint(data, hint) ==
    LET len == Len(data) IN
    [ j \in 1..len |->
        LET i == len - j IN
        IF i < Len(hint) THEN Xor(data[j], hint[i + 1]) ELSE data[j] ]

\* initial data of a pool account under the two hints
PoolData(e) ==
    LET zero == [ j \in 1..DataLen |-> 0 ]
        seeded == IF e.semantic_seed_hint # << >>
                  THEN ApplySeedHint(zero, e.semantic_seed_hint) ELSE zero
    IN  IF e.semantic_layout_hint # << >>
        THEN ApplyLayoutHint(seeded, e.semantic_layout_hint) ELSE seeded

\* the account inserted for pool key k
PoolAccount(e, owner) ==
    [ owner |-> owner, lamports |-> PoolLamports, data |-> PoolData(e),
      is_signer |-> FALSE, is_writable |-> TRUE, is_executable |-> FALSE ]

\* BTreeMap::insert of one entry
MapInsert(m, k, v) == [ x \in DOMAIN m \cup {k} |-> IF x = k THEN v ELSE m[x] ]

RECURSIVE InsertPool(_, _, _, _, _)
\* step 3 of build_snapshot: the loop over selectable_accounts from index j
\* on; accs is the map so far, ctr the new_unique counter
InsertPool(e, pid, j, accs, ctr) ==
    IF j > Len(e.selectable_accounts) THEN [ accounts |-> accs, ctr |-> ctr ]
    ELSE LET k == e.selectable_accounts[j] IN
         IF k = e.attacker \/ k = e.user \/ k = pid
         THEN InsertPool(e, pid, j + 1, accs, ctr)
         ELSE LET mal == attacker_controlled(k)
                  owner == IF mal THEN ctr ELSE pid
                  next == MapInsert(accs, k, PoolAccount(e, owner))
              IN  InsertPool(e, pid, j + 1, next, IF mal THEN ctr + 1 ELSE ctr)

\* a snapshot whose wallets carry the hinted data as well
build_snapshot_HintsWallets(e, pid, program_elf_bytes, ctr) ==
    LET hinted == [ Wallet EXCEPT !.data = PoolData(e) ]
        a1 == MapInsert(<< >>, e.attacker, hinted)
        a2 == MapInsert(a1, e.user, hinted)
        a3 == MapInsert(a2, pid, ProgramAccount(program_elf_bytes))
        r == InsertPool(e, pid, 1, a3, ctr)
    IN  [ snapshot |-> [ program_id |-> pid, accounts |-> r.accounts ],
          ctr |-> r.ctr ]

\* BlockchainEmulator::build_snapshot; returns the snapshot and the counter
build_snapshot(e, pid, program_elf_bytes, ctr) ==
    LET a1 == MapInsert(<< >>, e.attacker, Wallet)
        a2 == MapInsert(a1, e.user, Wallet)
        a3 == MapInsert(a2, pid, ProgramAccount(program_elf_bytes))
        r == InsertPool(e, pid, 1, a3, ctr)
    IN  [ snapshot |-> [ program_id |-> pid, accounts |-> r.accounts ],
          ctr |-> r.ctr ]

\* an update that clears the hint of an absent field
update_semantics_ClearsAbsent(e, sem) ==
    [ e EXCEPT
        !.semantic_seed_hint =
            IF sem.new_pda_seed_hint.some
            THEN sem.new_pda_seed_hint.value ELSE << >>,
        !.semantic_layout_hint =
            IF sem.new_account_layout_hint.some
            THEN sem.new_account_layout_hint.value ELSE << >> ]

\* BlockchainEmulator::update_semantics
update_semantics(e, sem) ==
    [ e EXCEPT
        !.semantic_seed_hint =
            IF sem.new_pda_seed_hint.some
            THEN sem.new_pda_seed_hint.value ELSE @,
        !.semantic_layout_hint =
            IF sem.new_account_layout_hint.some
            THEN sem.new_account_layout_hint.value ELSE @ ]

-----------------------------------------------------------------------------
(* Transaction generator (txgen.rs) *)

\* defaults of the three header bytes
DefaultNRaw == 3
DefaultSignerMask == 1
DefaultMode == 34

\* mal_mod from the top two bits of mode
MalMod(mode) ==
    CASE (mode \div 64) % 4 = 0 -> 8
      [] (mode \div 64) % 4 = 1 -> 4
      [] OTHER -> 3

\* writable_mod from bit 5 of mode
WritableMod(mode) == IF Bit(mode, 32) THEN 3 ELSE 4

\* the keys of selectable_accounts other than attacker and user
NonIdentity(e) ==
    SelectSeq(e.selectable_accounts, LAMBDA k : k # e.attacker /\ k # e.user)

\* benign pool with its fallback
BenignPool(e) ==
    LET pool == SelectSeq(NonIdentity(e), LAMBDA k : ~attacker_controlled(k))
    IN  IF pool = << >> THEN NonIdentity(e) ELSE pool

\* malicious pool with its fallback
MaliciousPool(e) ==
    LET pool == SelectSeq(NonIdentity(e), LAMBDA k : attacker_controlled(k))
    IN  IF pool = << >> THEN BenignPool(e) ELSE pool

\* a missing selector read as 0
ChooseAccount_ZeroDefault(bytes, e, mode, j) ==
    LET b == GetOr(bytes, 3 + j, 0)
        take_malicious == b % MalMod(mode) = 0
        pool == IF take_malicious THEN MaliciousPool(e) ELSE BenignPool(e)
        ai == b % Len(pool)
    IN  pool[ai + 1]

\* the key pushed for selector slot j (counted from 0)
ChooseAccount(bytes, e, mode, j) ==
    LET b == GetOr(bytes, 3 + j, (j * 17) % 256)
        take_malicious == b % MalMod(mode) = 0
        pool == IF take_malicious THEN MaliciousPool(e) ELSE BenignPool(e)
        ai == b % Len(pool)
    IN  pool[ai + 1]

RECURSIVE InsertSorted(_, _)
\* x put into the sorted sequence s
InsertSorted(s, x) ==
    IF s = << >> THEN << x >>
    ELSE IF x < Head(s) THEN << x >> \o s
    ELSE << Head(s) >> \o InsertSorted(Tail(s), x)

RECURSIVE Sort(_)
\* Vec::sort
Sort(s) == IF s = << >> THEN << >> ELSE InsertSorted(Sort(Tail(s)), Head(s))

\* dedup left out
Dedup_Skipped(s) == s

RECURSIVE Dedup(_)
\* Vec::dedup: consecutive repeats removed
Dedup(s) ==
    IF Len(s) <= 1 THEN s
    ELSE IF s[1] = s[2] THEN Dedup(Tail(s))
    ELSE << s[1] >> \o Dedup(Tail(s))

\* chosen keys to which the attacker is added by the mode bit alone
Chosen_AttackerByModeOnly(bytes, e, signer_mask, mode, n_accounts) ==
    [ j \in 1..n_accounts |-> ChooseAccount(bytes, e, mode, j - 1) ]
    \o << e.user >>
    \o (IF Bit(mode, 16) THEN << e.attacker >> ELSE << >>)

\* the chosen keys before sort and dedup
Chosen(bytes, e, signer_mask, mode, n_accounts) ==
    [ j \in 1..n_accounts |-> ChooseAccount(bytes, e, mode, j - 1) ]
    \o << e.user >>
    \o (IF Bit(signer_mask, 1) \/ Bit(mode, 16) THEN << e.attacker >> ELSE << >>)

\* the signer set of a mask
Signers(e, signer_mask) ==
    (IF Bit(signer_mask, 1) THEN {e.attacker} ELSE {})
    \cup (IF Bit(signer_mask, 2) THEN {e.user} ELSE {})

\* a meta that flags both identities as signers whatever the mask
Meta_IdentitiesSign(e, signers, mode, pos, k) ==
    [ pubkey |-> k,
      is_signer |-> (k = e.attacker \/ k = e.user),
      is_writable |-> ((pos + mode) % WritableMod(mode) = 0)
                      \/ k = e.attacker \/ k = e.user ]

\* the meta built for key k at position pos (counted from 0)
Meta(e, signers, mode, pos, k) ==
    [ pubkey |-> k,
      is_signer |-> k \in signers,
      is_writable |-> ((pos + mode) % WritableMod(mode) = 0)
                      \/ k = e.attacker \/ k = e.user ]

\* TxGenerator::from_bytes
from_bytes(bytes, e, pid) ==
    LET n_raw == GetOr(bytes, 0, DefaultNRaw)
        n_accounts == Max(n_raw % 8, 1)
        signer_mask == GetOr(bytes, 1, DefaultSignerMask)
        mode == GetOr(bytes, 2, DefaultMode)
        idx == 3 + n_accounts
        chosen == Dedup(Sort(Chosen(bytes, e, signer_mask, mode, n_accounts)))
        signers == Signers(e, signer_mask)
        accounts == [ p \in 1..Len(chosen) |->
                        Meta(e, signers, mode, p - 1, chosen[p]) ]
        data == SubSeq(bytes, idx + 1, Len(bytes))
    IN  [ signers |-> signers,
          all_accounts_sorted |-> chosen,
          instruction |->
              [ program_id |-> pid, accounts |-> accounts, data |-> data ] ]

-----------------------------------------------------------------------------
(* Coverage map (types.rs) *)

\* size of the map created by TraceVm::run
CoverageSize == 65536

\* CoverageMap::new: hits holds only the buckets that were hit; every other
\* bucket of the vector is 0
CoverageNew(size) == [ size |-> size, hits |-> << >> ]

\* hits[idx] of the full vector
HitsAt(cov, idx) == IF idx \in DOMAIN cov.hits THEN cov.hits[idx] ELSE 0

\* CoverageMap::hit_edge (u32 saturation is out of reach of a run's length)
hit_edge(cov, src, dst) ==
    LET idx == (src + dst) % cov.size IN
    [ cov EXCEPT !.hits = MapInsert(@, idx, HitsAt(cov, idx) + 1) ]

-----------------------------------------------------------------------------
(* Events (oracles.rs) *)

Cmp(lhs_tainted, rhs_tainted, used_for_auth) ==
    [ kind |-> "Cmp", lhs_tainted |-> lhs_tainted, rhs_tainted |-> rhs_tainted,
      used_for_auth |-> used_for_auth ]

ReadAccountData(acct, owner) ==
    [ kind |-> "ReadAccountData", acct |-> acct, owner |-> owner ]

WriteLamports(acct, delta) ==
    [ kind |-> "WriteLamports", acct |-> acct, delta |-> delta ]

WriteData(acct, nbytes) ==
    [ kind |-> "WriteData", acct |-> acct, nbytes |-> nbytes ]

Cpi(invoked_program, provided) ==
    [ kind |-> "Cpi", invoked_program |-> invoked_program,
      provided |-> provided ]

KeyAccess(required_key, provided_keys, used_for_auth) ==
    [ kind |-> "KeyAccess", required_key |-> required_key,
      provided_keys |-> provided_keys, used_for_auth |-> used_for_auth ]

IntegerOp(tainted, overflowed) ==
    [ kind |-> "IntegerOp", tainted |-> tainted, overflowed |-> overflowed ]

-----------------------------------------------------------------------------
(* Tracing VM (vm_rbpf.rs) *)

\* initial pseudo program counter
InitialPc == 4096
\* gain minted by the latch
BigGain == 80000000

\* TaintEngine::default()
TaintDefault ==
    [ reg_taint |-> [ r \in 1..16 |-> FALSE ], heap_taint |-> FALSE,
      input_taint |-> FALSE, data_acc_taint |-> FALSE ]

\* u64::saturating_sub
SaturatingSub(a, d) == IF d > a THEN 0 ELSE a - d

\* u64::saturating_add; u64::MAX lies beyond every balance a run of this
\* model can reach, so the sum is never clipped
SaturatingAdd(a, d) == a + d

\* the closure pick_acct
pick_acct(b, t, pid) ==
    IF t.all_accounts_sorted = << >> THEN pid
    ELSE t.all_accounts_sorted[(b % Len(t.all_accounts_sorted)) + 1]

\* the closure pick_benign_owned_by_program
pick_benign_owned_by_program(b, t, snap, pid) ==
    LET ok(k) == /\ k \in DOMAIN snap.accounts
                 /\ snap.accounts[k].owner = pid
                 /\ ~snap.accounts[k].is_executable
        hits == SelectSeq(t.all_accounts_sorted, ok)
    IN  IF hits # << >> THEN hits[1] ELSE pick_acct(b, t, pid)

\* the first meta whatever its is_signer flag
FirstMetaOr_AnyMeta(b, t, pid, signer) ==
    IF t.instruction.accounts # << >>
    THEN t.instruction.accounts[1].pubkey ELSE pick_acct(b, t, pid)

\* pubkey of the first meta with the given is_signer flag, else pick_acct
FirstMetaOr(b, t, pid, signer) ==
    LET hits == SelectSeq(t.instruction.accounts,
                          LAMBDA m : m.is_signer = signer)
    IN  IF hits # << >> THEN hits[1].pubkey ELSE pick_acct(b, t, pid)

\* a VM that goes on with the coverage map of the run before
VmStart_KeepsCoverage(snap, t) ==
    [ i |-> 0,
      pc |-> InitialPc,
      snap |-> snap,
      coverage |-> vm.coverage,
      taint |-> [ TaintDefault EXCEPT
                    !.input_taint = t.instruction.data # << >> ],
      events |-> << >>,
      pending_big_attacker_gain |-> FALSE ]

\* the locals of TraceVm::run before its loop
VmStart(snap, t) ==
    [ i |-> 0,
      pc |-> InitialPc,
      snap |-> snap,
      coverage |-> CoverageNew(CoverageSize),
      taint |-> [ TaintDefault EXCEPT
                    !.input_taint = t.instruction.data # << >> ],
      events |-> << >>,
      pending_big_attacker_gain |-> FALSE ]

\* the coverage edge at the head of the loop body
VmEdge(v, b) ==
    LET dst == v.pc + b * 7 + v.i IN
    [ v EXCEPT !.coverage = hit_edge(@, v.pc, dst), !.pc = dst, !.i = @ + 1 ]

\* opcode 0 whose left operand is never tainted
VmCmp_UntaintedLhs(v, b) ==
    [ v EXCEPT !.events = Append(@, Cmp(FALSE, Bit(b, 2), Bit(b, 1))) ]

\* opcode 0
VmCmp(v, b) ==
    [ v EXCEPT !.events =
        Append(@, Cmp(v.taint.input_taint, Bit(b, 2), Bit(b, 1))) ]

\* opcode 1
VmRead(v, b, t, pid) ==
    LET acct == IF b % 8 = 7 THEN pick_acct(b, t, pid)
                ELSE pick_benign_owned_by_program(b, t, v.snap, pid)
        owner == IF acct \in DOMAIN v.snap.accounts
                 THEN v.snap.accounts[acct].owner ELSE pid
    IN  [ v EXCEPT
            !.taint.data_acc_taint = IF owner # pid THEN TRUE ELSE @,
            !.events = Append(@, ReadAccountData(acct, owner)) ]

\* the (acct, delta) pair of a write-lamports byte
LamportsTarget(v, b, t, pid) ==
    LET unit == (b % 32) + 1 IN
    CASE b % 4 = 0 ->
           [ acct |-> FirstMetaOr(b, t, pid, FALSE), delta |-> -(unit * 10000) ]
      [] b % 4 = 1 ->
           [ acct |-> FirstMetaOr(b, t, pid, TRUE),
             delta |-> IF v.pending_big_attacker_gain THEN BigGain
                       ELSE unit * 10000 ]
      [] OTHER ->
           [ acct |-> pick_acct(b, t, pid),
             delta |-> IF Bit(b, 1) THEN -(unit * 5000) ELSE unit * 5000 ]

\* lamports after a delta
ApplyDelta(lamports, delta) ==
    IF delta < 0 THEN SaturatingSub(lamports, -delta)
    ELSE SaturatingAdd(lamports, delta)

\* opcode 2 whose mode-1 write leaves the latch set
VmWriteLamports_KeepsLatch(v, b, t, pid) ==
    LET w == LamportsTarget(v, b, t, pid)
        snap == IF w.acct \in DOMAIN v.snap.accounts
                THEN [ v.snap EXCEPT !.accounts[w.acct].lamports =
                                         ApplyDelta(@, w.delta) ]
                ELSE v.snap
    IN  [ v EXCEPT
            !.snap = snap,
            !.events = Append(@, WriteLamports(w.acct, w.delta)) ]

\* opcode 2
VmWriteLamports(v, b, t, pid) ==
    LET w == LamportsTarget(v, b, t, pid)
        snap == IF w.acct \in DOMAIN v.snap.accounts
                THEN [ v.snap EXCEPT !.accounts[w.acct].lamports =
                                         ApplyDelta(@, w.delta) ]
                ELSE v.snap
    IN  [ v EXCEPT
            !.pending_big_attacker_gain = IF b % 4 = 1 THEN FALSE ELSE @,
            !.snap = snap,
            !.events = Append(@, WriteLamports(w.acct, w.delta)) ]

\* opcode 3 that appends the byte to the data instead of xoring it in
VmWriteData_Appends(v, b, t, pid) ==
    LET acct == pick_acct(b, t, pid)
        n == Max(b % 32, 1)
    IN  IF acct \in DOMAIN v.snap.accounts
        THEN [ v EXCEPT
                 !.snap.accounts[acct].data = Append(@, b),
                 !.events = Append(@, WriteData(acct, n)) ]
        ELSE v

\* opcode 3
VmWriteData(v, b, t, pid) ==
    LET acct == pick_acct(b, t, pid)
        n == Max(b % 32, 1)
    IN  IF acct \in DOMAIN v.snap.accounts
        THEN [ v EXCEPT
                 !.snap.accounts[acct].data =
                     [ j \in 1..Len(@) |->
                         IF j <= n THEN Xor(@[j], b) ELSE @[j] ],
                 !.events = Append(@, WriteData(acct, n)) ]
        ELSE v

\* the provided list of a CPI byte
CpiProvided(b, t) ==
    LET metas == t.instruction.accounts
        signers == SelectSeq(metas, LAMBDA m : m.is_signer)
    IN  (IF metas # << >> THEN << metas[1].pubkey >> ELSE << >>)
        \o (IF Bit(b, 2) /\ signers # << >>
            THEN << signers[1].pubkey >> ELSE << >>)

\* opcode 4 that always invokes the program itself
VmCpi_InvokesSelf(v, b, t, pid, ctr) ==
    [ v EXCEPT !.events = Append(@, Cpi(pid, CpiProvided(b, t))) ]

\* opcode 4; ctr is the new_unique counter, consumed when b is odd
VmCpi(v, b, t, pid, ctr) ==
    LET invoked == IF ~Bit(b, 1) THEN pid ELSE ctr IN
    [ v EXCEPT !.events = Append(@, Cpi(invoked, CpiProvided(b, t))) ]

\* opcodes 5..7 without the latch
VmIntegerKey_NoLatch(v, b, t, pid) ==
    LET required_key == pick_acct(b, t, pid)
        provided_keys == IF Bit(b, 4) THEN << required_key >> ELSE << >>
    IN  [ v EXCEPT
            !.events = @ \o << IntegerOp(v.taint.input_taint, b % 16 = 15),
                              KeyAccess(required_key, provided_keys, Bit(b, 2)) >> ]

\* opcodes 5..7
VmIntegerKey(v, b, t, pid) ==
    LET overflowed == b % 16 = 15
        tainted == v.taint.input_taint
        required_key == pick_acct(b, t, pid)
        provided_keys == IF Bit(b, 4) THEN << required_key >> ELSE << >>
    IN  [ v EXCEPT
            !.pending_big_attacker_gain =
                IF tainted /\ overflowed THEN TRUE ELSE @,
            !.events = @ \o << IntegerOp(tainted, overflowed),
                              KeyAccess(required_key, provided_keys, Bit(b, 2)) >> ]

-----------------------------------------------------------------------------
(* 64-bit words and CoverageMap::hash16 (types.rs)                          *)
(* A u64 is held as five limbs, least significant first: four of 13 bits   *)
(* and a top limb of 12 bits, so that every product fits TLC's integers.   *)

Limb == 8192
TopLimb == 4096

\* v as u64, for 0 <= v < 2^31
U64(v) ==
    << v % Limb, (v \div Limb) % Limb, (v \div (Limb * Limb)) % Limb, 0, 0 >>

\* a ^ b on u64
XorU64(a, b) == [ k \in 1..5 |-> Xor(a[k], b[k]) ]

\* u64::wrapping_mul
WrappingMul(a, b) ==
    LET c0 == a[1] * b[1]
        c1 == a[1] * b[2] + a[2] * b[1]
        c2 == a[1] * b[3] + a[2] * b[2] + a[3] * b[1]
        c3 == a[1] * b[4] + a[2] * b[3] + a[3] * b[2] + a[4] * b[1]
        c4 == a[1] * b[5] + a[2] * b[4] + a[3] * b[3] + a[4] * b[2]
              + a[5] * b[1]
        s1 == c1 + (c0 \div Limb)
        s2 == c2 + (s1 \div Limb)
        s3 == c3 + (s2 \div Limb)
        s4 == c4 + (s3 \div Limb)
    IN  << c0 % Limb, s1 % Limb, s2 % Limb, s3 % Limb, s4 % TopLimb >>

\* the seed 1469598103934665603 = 0x14650FB0739D0383 of hash16
HashSeed == << 899, 7400, 3100, 2591, 326 >>
\* the multiplier 1099511628211 = 0x100000001B3 of hash16
HashPrime == << 435, 0, 0, 2, 0 >>

RECURSIVE WrappingPow(_, _)
\* base^n with wrapping multiplication
WrappingPow(base, n) ==
    IF n = 0 THEN U64(1)
    ELSE LET half == WrappingPow(WrappingMul(base, base), n \div 2) IN
         IF n % 2 = 1 THEN WrappingMul(base, half) ELSE half

\* one turn of the loop of hash16 on bucket value v
HashFold(h, v) == WrappingMul(XorU64(h, U64(v)), HashPrime)

RECURSIVE HashFrom(_, _, _)
\* the loop of hash16 from bucket idx on; a run of n zero buckets
\* multiplies h by HashPrime^n
HashFrom(cov, idx, h) ==
    LET later == { x \in DOMAIN cov.hits : x >= idx } IN
    IF later = {} THEN WrappingMul(h, WrappingPow(HashPrime, cov.size - idx))
    ELSE LET nxt == CHOOSE x \in later : \A y \in later : x <= y
             h1 == WrappingMul(h, WrappingPow(HashPrime, nxt - idx))
         IN  HashFrom(cov, nxt + 1, HashFold(h1, cov.hits[nxt]))

\* CoverageMap::hash16
hash16(cov) == HashFrom(cov, 0, HashSeed)

-----------------------------------------------------------------------------
(* Oracle engine (oracles.rs) *)

\* margin of the integer-bug rule
IbMargin == 50000000

\* snap.accounts.get(k).map(|a| a.lamports).unwrap_or(dflt)
LamportsOr(snap, k, dflt) ==
    IF k \in DOMAIN snap.accounts THEN snap.accounts[k].lamports ELSE dflt

\* the six signals as the driver initialises them
NoSignals ==
    [ msc |-> FALSE, moc |-> FALSE, acpi |-> FALSE, mkc |-> FALSE,
      ib |-> FALSE, lamports_theft |-> FALSE ]

\* Oracles::new
OraclesNew(ctx, pre) ==
    [ ctx |-> ctx,
      saw_auth_cmp |-> FALSE,
      saw_auth_cmp_with_taint |-> FALSE,
      auth_depends_on_malicious |-> FALSE,
      msc_candidates |-> {},
      moc_malicious_reads |-> {},
      modified_accounts |-> {},
      pre_user_lamports |-> LamportsOr(pre, ctx.user, 0),
      pre_attacker_lamports |-> LamportsOr(pre, ctx.attacker, 0),
      saw_tainted_overflow |-> FALSE ]

\* the writable non-signer metas of a transaction
WritableNonSigners(t) ==
    { t.instruction.accounts[j].pubkey : j \in
        { j \in 1..Len(t.instruction.accounts) :
            /\ t.instruction.accounts[j].is_writable
            /\ ~t.instruction.accounts[j].is_signer } }

\* the taint test that sets saw_auth_cmp_with_taint
AuthTaint(ev, taint) ==
    ev.lhs_tainted \/ ev.rhs_tainted \/ taint.input_taint \/ taint.data_acc_taint

\* the test without its look at moc_malicious_reads
AuthDependsOnMalicious_NoReads(o, ev, taint) ==
    ev.lhs_tainted \/ ev.rhs_tainted \/ taint.data_acc_taint

\* the test that sets auth_depends_on_malicious
AuthDependsOnMalicious(o, ev, taint) ==
    /\ o.moc_malicious_reads # {}
    /\ (ev.lhs_tainted \/ ev.rhs_tainted \/ taint.data_acc_taint)

\* process_event, arm Cmp
OnCmp(o, t, taint, ev) ==
    IF ev.used_for_auth
    THEN [ o EXCEPT
             !.saw_auth_cmp = TRUE,
             !.saw_auth_cmp_with_taint = IF AuthTaint(ev, taint) THEN TRUE ELSE @,
             !.auth_depends_on_malicious =
                 IF AuthDependsOnMalicious(o, ev, taint) THEN TRUE ELSE @,
             !.msc_candidates = @ \cup WritableNonSigners(t) ]
    ELSE o

\* process_event, arm ReadAccountData
OnReadAccountData(o, ev) ==
    IF ev.owner # o.ctx.program_id
    THEN [ o EXCEPT !.moc_malicious_reads = @ \cup {ev.acct} ]
    ELSE o

\* process_event, arms WriteLamports and WriteData
OnWrite(o, ev) == [ o EXCEPT !.modified_accounts = @ \cup {ev.acct} ]

\* the Cpi arm without its auth gate
CpiRaises_NoAuthGate(o, ev) ==
    /\ ev.invoked_program # o.ctx.program_id
    /\ Contains(ev.provided, o.ctx.attacker)

\* process_event, arm Cpi: whether acpi is raised
CpiRaises(o, ev) ==
    LET allowed == ev.invoked_program = o.ctx.program_id IN
    ~allowed /\ o.saw_auth_cmp_with_taint /\ Contains(ev.provided, o.ctx.attacker)

\* the KeyAccess arm without its used_for_auth test
KeyAccessRaises_AnyAccess(t, ev) ==
    /\ ~Contains(ev.provided_keys, ev.required_key)
    /\ ev.required_key \notin t.signers

\* process_event, arm KeyAccess: whether mkc is raised
KeyAccessRaises(t, ev) ==
    /\ ev.used_for_auth
    /\ LET ok == Contains(ev.provided_keys, ev.required_key)
           required_is_signer == ev.required_key \in t.signers
       IN  ~ok /\ ~required_is_signer

\* process_event, arm IntegerOp
OnIntegerOp(o, ev) ==
    IF ev.tainted /\ ev.overflowed
    THEN [ o EXCEPT !.saw_tainted_overflow = TRUE ]
    ELSE o

\* process_event whose KeyAccess arm assigns mkc the outcome of its test
process_event_AssignsMkc(o, t, taint, ev, sig) ==
    CASE ev.kind = "Cmp" ->
           [ oracles |-> OnCmp(o, t, taint, ev), signals |-> sig ]
      [] ev.kind = "ReadAccountData" ->
           [ oracles |-> OnReadAccountData(o, ev), signals |-> sig ]
      [] ev.kind \in {"WriteLamports", "WriteData"} ->
           [ oracles |-> OnWrite(o, ev), signals |-> sig ]
      [] ev.kind = "Cpi" ->
           [ oracles |-> o,
             signals |-> IF CpiRaises(o, ev)
                         THEN [ sig EXCEPT !.acpi = TRUE ] ELSE sig ]
      [] ev.kind = "KeyAccess" ->
           [ oracles |-> o,
             signals |-> [ sig EXCEPT !.mkc = KeyAccessRaises(t, ev) ] ]
      [] ev.kind = "IntegerOp" ->
           [ oracles |-> OnIntegerOp(o, ev), signals |-> sig ]

\* Oracles::process_event; returns the oracle state and the signals
process_event(o, t, taint, ev, sig) ==
    CASE ev.kind = "Cmp" ->
           [ oracles |-> OnCmp(o, t, taint, ev), signals |-> sig ]
      [] ev.kind = "ReadAccountData" ->
           [ oracles |-> OnReadAccountData(o, ev), signals |-> sig ]
      [] ev.kind \in {"WriteLamports", "WriteData"} ->
           [ oracles |-> OnWrite(o, ev), signals |-> sig ]
      [] ev.kind = "Cpi" ->
           [ oracles |-> o,
             signals |-> IF CpiRaises(o, ev)
                         THEN [ sig EXCEPT !.acpi = TRUE ] ELSE sig ]
      [] ev.kind = "KeyAccess" ->
           [ oracles |-> o,
             signals |-> IF KeyAccessRaises(t, ev)
                         THEN [ sig EXCEPT !.mkc = TRUE ] ELSE sig ]
      [] ev.kind = "IntegerOp" ->
           [ oracles |-> OnIntegerOp(o, ev), signals |-> sig ]

\* the MSC rule with a non-strict comparison
MscRaises_NotStrict(o, pre, post) ==
    /\ o.saw_auth_cmp_with_taint
    /\ \E acct \in o.modified_accounts :
         /\ acct \in o.msc_candidates
         /\ LamportsOr(post, acct, LamportsOr(pre, acct, 0))
              <= LamportsOr(pre, acct, 0)

\* finalize, MSC: some modified candidate lost lamports
MscRaises(o, pre, post) ==
    /\ o.saw_auth_cmp_with_taint
    /\ \E acct \in o.modified_accounts :
         /\ acct \in o.msc_candidates
         /\ LET pre_l == LamportsOr(pre, acct, 0)
                post_l == LamportsOr(post, acct, pre_l)
            IN  post_l < pre_l

\* the MOC rule that asks for a foreign read anywhere in the stream
MocRaises_ReadsAnywhere(o, t) ==
    /\ o.saw_auth_cmp /\ o.moc_malicious_reads # {}
    /\ \E acct \in o.modified_accounts :
         /\ acct # o.ctx.attacker
         /\ \E j \in 1..Len(t.instruction.accounts) :
              /\ t.instruction.accounts[j].pubkey = acct
              /\ t.instruction.accounts[j].is_writable

\* finalize, MOC: some modified non-attacker account is a writable meta
MocRaises(o, t) ==
    /\ o.saw_auth_cmp /\ o.auth_depends_on_malicious
    /\ \E acct \in o.modified_accounts :
         /\ acct # o.ctx.attacker
         /\ \E j \in 1..Len(t.instruction.accounts) :
              /\ t.instruction.accounts[j].pubkey = acct
              /\ t.instruction.accounts[j].is_writable

\* the theft rule without its signer test
TheftRaises_NoSignerTest(o, t, pre, post) ==
    LET pre_user == LamportsOr(pre, o.ctx.user, o.pre_user_lamports)
        pre_att == LamportsOr(pre, o.ctx.attacker, o.pre_attacker_lamports)
        post_user == LamportsOr(post, o.ctx.user, pre_user)
        post_att == LamportsOr(post, o.ctx.attacker, pre_att)
    IN  post_user < pre_user /\ post_att > pre_att

\* finalize, lamports theft
TheftRaises(o, t, pre, post) ==
    /\ o.ctx.attacker \in t.signers
    /\ LET pre_user == LamportsOr(pre, o.ctx.user, o.pre_user_lamports)
           pre_att == LamportsOr(pre, o.ctx.attacker, o.pre_attacker_lamports)
           post_user == LamportsOr(post, o.ctx.user, pre_user)
           post_att == LamportsOr(post, o.ctx.attacker, pre_att)
       IN  post_user < pre_user /\ post_att > pre_att

\* the integer-bug rule with a non-strict comparison
IbRaises_AtLeast(o, post) ==
    /\ o.saw_tainted_overflow
    /\ LamportsOr(post, o.ctx.attacker, 0)
         >= SaturatingAdd(o.pre_attacker_lamports, IbMargin)

\* finalize, integer bugs
IbRaises(o, post) ==
    /\ o.saw_tainted_overflow
    /\ LET post_att == LamportsOr(post, o.ctx.attacker, 0)
       IN  post_att > SaturatingAdd(o.pre_attacker_lamports, IbMargin)

\* Oracles::finalize; returns the signals
finalize(o, t, pre, post, sig) ==
    [ sig EXCEPT
        !.msc = IF MscRaises(o, pre, post) THEN TRUE ELSE @,
        !.moc = IF MocRaises(o, t) THEN TRUE ELSE @,
        !.lamports_theft = IF TheftRaises(o, t, pre, post) THEN TRUE ELSE @,
        !.ib = IF IbRaises(o, post) THEN TRUE ELSE @ ]

-----------------------------------------------------------------------------
(* Signals and evaluator (types.rs, evaluator.rs) *)

\* OracleSignals::any
any(sig) ==
    sig.msc \/ sig.moc \/ sig.acpi \/ sig.mkc \/ sig.ib \/ sig.lamports_theft

\* class() with the msc test ahead of the moc test
class_MscFirst(sig) ==
    IF sig.lamports_theft THEN "LAMPORTS_THEFT"
    ELSE IF sig.msc THEN "MSC"
    ELSE IF sig.moc THEN "MOC"
    ELSE IF sig.acpi THEN "ACPI"
    ELSE IF sig.mkc THEN "MKC"
    ELSE IF sig.ib THEN "IB"
    ELSE "NONE"

\* OracleSignals::class
class(sig) ==
    IF sig.lamports_theft THEN "LAMPORTS_THEFT"
    ELSE IF sig.moc THEN "MOC"
    ELSE IF sig.msc THEN "MSC"
    ELSE IF sig.acpi THEN "ACPI"
    ELSE IF sig.mkc THEN "MKC"
    ELSE IF sig.ib THEN "IB"
    ELSE "NONE"

None == [ some |-> FALSE ]
Some(x) == [ some |-> TRUE, value |-> x ]

\* iter().take(n) of a sequence
Take(s, n) == SubSeq(s, 1, Min(n, Len(s)))

\* iter().rev().take(n) of a sequence
RevTake(s, n) == [ j \in 1..Min(n, Len(s)) |-> s[Len(s) + 1 - j] ]

\* types::hex: two digits per byte, high nibble first
hex(bytes) ==
    [ j \in 1..(2 * Len(bytes)) |->
        IF j % 2 = 1 THEN bytes[(j + 1) \div 2] \div 16
        ELSE bytes[j \div 2] % 16 ]

\* the keys of a snapshot in BTreeMap order
KeysInOrder(snap) ==
    LET RECURSIVE Asc(_)
        Asc(S) == IF S = {} THEN << >>
                  ELSE LET m == CHOOSE x \in S : \A y \in S : x <= y
                       IN  << m >> \o Asc(S \ {m})
    IN  Asc(DOMAIN snap.accounts)

\* types::snapshot_to_string: one line per account, the fields it prints
snapshot_to_string(snap) ==
    LET keys == KeysInOrder(snap) IN
    [ j \in 1..Len(keys) |->
        LET a == snap.accounts[keys[j]] IN
        [ key |-> keys[j], owner |-> a.owner, lamports |-> a.lamports,
          data_len |-> Len(a.data), signer |-> a.is_signer,
          writable |-> a.is_writable, exec |-> a.is_executable ] ]

\* the trace_summary string of TraceVm::run, by the values it prints
TraceSummary(v, t) ==
    [ bytes |-> Len(t.instruction.data), edges_hash |-> hash16(v.coverage),
      accounts |-> Len(t.all_accounts_sorted),
      signers |-> Cardinality(t.signers) ]

\* an evaluator that emits the seed hint on new coverage whatever the data
evaluate_HintOnAnyData(exec, best) ==
    LET cov_hash == hash16(exec.coverage)
        is_new_coverage == cov_hash # best
        is_objective == any(exec.signals)
        data == exec.tx.instruction.data
    IN  [ outcome |->
            [ is_new_coverage |-> is_new_coverage,
              is_objective |-> is_objective,
              report |-> None,
              semantics |->
                [ new_pda_seed_hint |->
                      IF is_new_coverage THEN Some(Take(data, 8)) ELSE None,
                  new_account_layout_hint |-> None ] ],
          best_cov_hash |-> IF is_new_coverage THEN cov_hash ELSE best ]

\* TransactionEvaluator::evaluate; returns the outcome and best_cov_hash
evaluate(exec, best) ==
    LET cov_hash == hash16(exec.coverage)
        is_new_coverage == cov_hash # best
        is_objective == any(exec.signals)
        data == exec.tx.instruction.data
        report ==
            IF is_objective
            THEN Some([ vuln_class |-> class(exec.signals),
                        tx_payload_hex |-> hex(data),
                        global_state_before |->
                            snapshot_to_string(exec.pre_snapshot),
                        global_state_after |->
                            snapshot_to_string(exec.post_snapshot),
                        trace_summary |-> exec.trace_summary ])
            ELSE None
        semantics ==
            [ new_pda_seed_hint |->
                  IF is_new_coverage /\ data # << >>
                  THEN Some(Take(data, 8)) ELSE None,
              new_account_layout_hint |->
                  IF is_objective /\ Len(data) >= 8
                  THEN Some(RevTake(data, 8)) ELSE None ]
    IN  [ outcome |-> [ is_new_coverage |-> is_new_coverage,
                        is_objective |-> is_objective,
                        report |-> report,
                        semantics |-> semantics ],
          best_cov_hash |-> IF is_new_coverage THEN cov_hash ELSE best ]

-----------------------------------------------------------------------------
(* Driver (fuzzer_libafl.rs) *)

\* the seed vector of run_fuzzdelsol
Seed == << 2, 3, 0, 1, 2, 3, 16, 34, 128, 255, 127, 1 >>

\* the buffer substituted for an empty seed
EmptySeedInput == << 2, 3, 0, 1, 2, 3, 4, 5 >>

RECURSIVE MutateFlips(_, _, _, _)
\* the flip loop of mutate_bytes for k, k+1, .. n-1
MutateFlips(o, it, k, n) ==
    IF k >= n THEN o
    ELSE LET i == (it + k * 13) % Len(o)
             x == (((it % 256) * 31) + k) % 256
         IN  MutateFlips([ o EXCEPT ![i + 1] = Xor(@, x) ], it, k + 1, n)

\* mutate_bytes
mutate_bytes(seed, it) ==
    LET o == IF seed = << >> THEN EmptySeedInput ELSE seed
        flipped == MutateFlips(o, it, 0, (it % 8) + 1)
    IN  IF it % 7 = 0 /\ Len(flipped) < 256
        THEN Append(flipped, Xor(it % 256, 170))
        ELSE flipped

\* the 16 hex digits of format!("{:016x}", h), most significant first
Hex16(h) ==
    LET bit(n) == (h[(n \div 13) + 1] \div (2 ^ (n % 13))) % 2
        nibble(n) == bit(4 * n) + 2 * bit(4 * n + 1) + 4 * bit(4 * n + 2)
                     + 8 * bit(4 * n + 3)
    IN  [ j \in 1..16 |-> nibble(16 - j) ]

-----------------------------------------------------------------------------
(* Inputs drawn for the model *)

\* all sequences over S of length at most n
SeqsUpTo(S, n) == UNION { [ 1..k -> S ] : k \in 0..n }

\* contents of the file at elf_path: unreadable (empty) or a short artifact
ElfFiles == { << >>, << 127, 69 >> }

\* instruction-data bytes drawn freely, one or two of every opcode
\*   0x01        compare used for auth
\*   0x27        read through pick_acct
\*   0x40 0x41   lamport writes of mode 0 and mode 1
\*   0x83        CPI to a fresh key, first meta and first signer provided
\*   0xE2 0xFF   integer op and key access
DataBytes == { 1, 39, 64, 65, 131, 226, 255 }

\* further instruction data: the remaining opcode variants and the tapes of
\* the documented scenarios
Tapes ==
    { << 0 >>, << 32 >>, << 67 >>, << 96 >>, << 128 >>, << 129 >>, << 160 >>,
      << 255, 33 >>, << 1, 128 >>, << 39, 1, 64 >>, << 39, 1, 96 >>,
      << 1, 66, 67 >>, << 1, 129 >>, << 64, 65, 70 >>,
      << 255, 65, 65 >>, << 255, 64, 65 >>, << 1, 39, 64 >>, << 98 >> }

\* header and selector bytes: n_raw, signer_mask, mode, selectors
Headers ==
    { << 1, 0, 34, 0 >>, << 1, 1, 34, 0 >>, << 1, 3, 34, 0 >>,
      << 2, 0, 16, 5, 8 >> }

\* the buffers the mutator may hand to the generator in the first iteration
Inputs ==
    { h \o d : h \in Headers, d \in SeqsUpTo(DataBytes, MaxData) \cup Tapes }
    \cup { SubSeq(h, 1, l) : h \in Headers, l \in 0..3 }

-----------------------------------------------------------------------------
(* The fuzz loop *)

NoSnapshot == [ program_id |-> SystemProgram, accounts |-> << >> ]
NoTx ==
    [ signers |-> {}, all_accounts_sorted |-> << >>,
      instruction |->
          [ program_id |-> SystemProgram, accounts |-> << >>, data |-> << >> ] ]
\* no VM has run yet
NoVm ==
    [ i |-> 0,
      pc |-> InitialPc,
      snap |-> NoSnapshot,
      coverage |-> CoverageNew(CoverageSize),
      taint |-> TaintDefault,
      events |-> << >>,
      pending_big_attacker_gain |-> FALSE ]
NoOutcome ==
    [ is_new_coverage |-> FALSE, is_objective |-> FALSE, report |-> None,
      semantics |->
          [ new_pda_seed_hint |-> None, new_account_layout_hint |-> None ] ]

\* OracleContext built by the driver
Ctx == [ program_id |-> program_id, attacker |-> emu.attacker,
         user |-> emu.user ]

\* run_fuzzdelsol up to its loop: program_id, then the emulator, are minted
\* from a counter that starts at 1
Init ==
    /\ phase = "loop"
    /\ iters \in {0, MaxIters}
    /\ iter = 0
    /\ program_id = 1
    /\ elf_bytes \in ElfFiles
    /\ emu = EmulatorNew(2)
    /\ unique_ctr = 4 + PoolExtra
    /\ best_cov_hash = U64(0)
    /\ input = << >>
    /\ pre_snapshot = NoSnapshot
    /\ tx = NoTx
    /\ vm = NoVm
    /\ oracles = OraclesNew([ program_id |-> 1, attacker |-> 2, user |-> 3 ],
                            NoSnapshot)
    /\ signals = NoSignals
    /\ fold_n = 0
    /\ out = NoOutcome
    /\ files = << >>
    /\ io_error = FALSE
    /\ runs = << >>
    /\ exit_code = None

\* emu.build_snapshot(program_id, &elf_bytes)
BuildSnapshot ==
    /\ phase = "loop" /\ iter < iters
    /\ LET r == build_snapshot(emu, program_id, elf_bytes, unique_ctr) IN
         /\ pre_snapshot' = r.snapshot
         /\ unique_ctr' = r.ctr
    /\ phase' = "mutate"
    /\ UNCHANGED << exit_code, iters, iter, program_id, elf_bytes, emu, best_cov_hash,
                    input, tx, vm, oracles, signals, fold_n, out, files,
                    io_error, runs >>

\* the buffers the mutator hands out.  The code computes
\* mutate_bytes(seed, i); the model also lets the first iteration take any
\* buffer of Inputs and lets a later iteration take a buffer that an earlier
\* one already executed (mutate_bytes is periodic in i, so the loop does
\* execute a buffer again)
InputsAt ==
    (IF \A k \in 1..Len(runs) : runs[k].input = mutate_bytes(Seed, k - 1)
     THEN { mutate_bytes(Seed, iter) } ELSE {})
    \cup (IF runs = << >> THEN Inputs
          ELSE { runs[k].input : k \in 1..Len(runs) })

\* mutate_bytes and TxGenerator::from_bytes
GenerateTx ==
    /\ phase = "mutate"
    /\ \E inp \in InputsAt :
         /\ input' = inp
         /\ tx' = from_bytes(inp, emu, program_id)
    /\ phase' = "run"
    /\ UNCHANGED << exit_code, iters, iter, program_id, elf_bytes, emu, unique_ctr,
                    best_cov_hash, pre_snapshot, vm, oracles, signals, fold_n,
                    out, files, io_error, runs >>

\* TraceVm::run up to its loop, on a clone of the pre-snapshot
VmEnter ==
    /\ phase = "run"
    /\ vm' = VmStart(pre_snapshot, tx)
    /\ phase' = "vm"
    /\ UNCHANGED << exit_code, iters, iter, program_id, elf_bytes, emu, unique_ctr,
                    best_cov_hash, input, pre_snapshot, tx, oracles, signals,
                    fold_n, out, files, io_error, runs >>

\* the byte the VM loop is about to process
VmByte == tx.instruction.data[vm.i + 1]

\* guard of one turn of the VM loop on opcode class op
VmAt(ops) ==
    /\ phase = "vm"
    /\ vm.i < Len(tx.instruction.data)
    /\ VmByte \div 32 \in ops

VmFrame ==
    UNCHANGED << exit_code, phase, iters, iter, program_id, elf_bytes, emu,
                 best_cov_hash, input, pre_snapshot, tx, oracles, signals,
                 fold_n, out, files, io_error, runs >>

VmStepCmp ==
    /\ VmAt({0})
    /\ vm' = VmCmp(VmEdge(vm, VmByte), VmByte)
    /\ UNCHANGED unique_ctr /\ VmFrame

VmStepRead ==
    /\ VmAt({1})
    /\ vm' = VmRead(VmEdge(vm, VmByte), VmByte, tx, program_id)
    /\ UNCHANGED unique_ctr /\ VmFrame

\* a VM that writes lamports through a reference into the driver's snapshot
VmStepWriteLamports_Aliased ==
    /\ VmAt({2})
    /\ vm' = VmWriteLamports(VmEdge(vm, VmByte), VmByte, tx, program_id)
    /\ pre_snapshot' = vm'.snap
    /\ UNCHANGED << exit_code, phase, iters, iter, program_id, elf_bytes, emu,
                    unique_ctr, best_cov_hash, input, tx, oracles, signals,
                    fold_n, out, files, io_error, runs >>

VmStepWriteLamports ==
    /\ VmAt({2})
    /\ vm' = VmWriteLamports(VmEdge(vm, VmByte), VmByte, tx, program_id)
    /\ UNCHANGED unique_ctr /\ VmFrame

VmStepWriteData ==
    /\ VmAt({3})
    /\ vm' = VmWriteData(VmEdge(vm, VmByte), VmByte, tx, program_id)
    /\ UNCHANGED unique_ctr /\ VmFrame

VmStepCpi ==
    /\ VmAt({4})
    /\ vm' = VmCpi(VmEdge(vm, VmByte), VmByte, tx, program_id, unique_ctr)
    /\ unique_ctr' = IF Bit(VmByte, 1) THEN unique_ctr + 1 ELSE unique_ctr
    /\ VmFrame

VmStepIntegerKey ==
    /\ VmAt({5, 6, 7})
    /\ vm' = VmIntegerKey(VmEdge(vm, VmByte), VmByte, tx, program_id)
    /\ UNCHANGED unique_ctr /\ VmFrame

\* a driver that builds signals and Oracles once, outside its loop
OraclesInit_BuiltOnce ==
    /\ phase = "vm"
    /\ vm.i = Len(tx.instruction.data)
    /\ fold_n' = 0
    /\ phase' = "fold"
    /\ UNCHANGED << exit_code, iters, iter, program_id, elf_bytes, emu, unique_ctr,
                    best_cov_hash, input, pre_snapshot, tx, vm, oracles,
                    signals, out, files, io_error, runs >>

\* the VM returned: fresh signals and Oracles::new
OraclesInit ==
    /\ phase = "vm"
    /\ vm.i = Len(tx.instruction.data)
    /\ signals' = NoSignals
    /\ oracles' = OraclesNew(Ctx, pre_snapshot)
    /\ fold_n' = 0
    /\ phase' = "fold"
    /\ UNCHANGED << exit_code, iters, iter, program_id, elf_bytes, emu, unique_ctr,
                    best_cov_hash, input, pre_snapshot, tx, vm, out, files,
                    io_error, runs >>

\* one turn of the loop over vm_out.events
FoldEvent ==
    /\ phase = "fold"
    /\ fold_n < Len(vm.events)
    /\ LET r == process_event(oracles, tx, vm.taint, vm.events[fold_n + 1],
                              signals) IN
         /\ oracles' = r.oracles
         /\ signals' = r.signals
    /\ fold_n' = fold_n + 1
    /\ UNCHANGED << exit_code, phase, iters, iter, program_id, elf_bytes, emu,
                    unique_ctr, best_cov_hash, input, pre_snapshot, tx, vm,
                    out, files, io_error, runs >>

\* oracles.finalize
Finalize ==
    /\ phase = "fold"
    /\ fold_n = Len(vm.events)
    /\ signals' = finalize(oracles, tx, pre_snapshot, vm.snap, signals)
    /\ phase' = "evaluate"
    /\ UNCHANGED << exit_code, iters, iter, program_id, elf_bytes, emu, unique_ctr,
                    best_cov_hash, input, pre_snapshot, tx, vm, oracles,
                    fold_n, out, files, io_error, runs >>

\* the ExecResult handed to the evaluator
Exec ==
    [ coverage |-> vm.coverage, signals |-> signals, tx |-> tx,
      pre_snapshot |-> pre_snapshot, post_snapshot |-> vm.snap,
      trace_summary |-> TraceSummary(vm, tx) ]

\* an evaluator that remembers every fingerprint it has seen
Evaluate_RemembersAll ==
    /\ phase = "evaluate"
    /\ LET r == evaluate(Exec, best_cov_hash) IN
         /\ out' = [ r.outcome EXCEPT !.is_new_coverage =
                       \A k \in 1..Len(runs) :
                           runs[k].cov_hash # hash16(vm.coverage) ]
         /\ best_cov_hash' = r.best_cov_hash
         /\ phase' = IF r.outcome.is_objective THEN "persist" ELSE "feedback"
    /\ UNCHANGED << exit_code, iters, iter, program_id, elf_bytes, emu, unique_ctr,
                    input, pre_snapshot, tx, vm, oracles, signals, fold_n,
                    files, io_error, runs >>

\* TransactionEvaluator::evaluate
Evaluate ==
    /\ phase = "evaluate"
    /\ LET r == evaluate(Exec, best_cov_hash) IN
         /\ out' = r.outcome
         /\ best_cov_hash' = r.best_cov_hash
         /\ phase' = IF r.outcome.is_objective THEN "persist" ELSE "feedback"
    /\ UNCHANGED << exit_code, iters, iter, program_id, elf_bytes, emu, unique_ctr,
                    input, pre_snapshot, tx, vm, oracles, signals, fold_n,
                    files, io_error, runs >>

\* a directory choice that sends theft to crashes/ only when it is alone
ArtifactDir_TheftAlone ==
    IF signals = [ NoSignals EXCEPT !.lamports_theft = TRUE ]
    THEN "crashes" ELSE "bugs"

\* directory and file stem of the artifacts of this iteration
ArtifactDir == IF signals.lamports_theft THEN "crashes" ELSE "bugs"
ArtifactName == Hex16(hash16(vm.coverage))

\* write_artifact(dir, &name, &input)?
PersistPayload ==
    /\ phase = "persist"
    /\ \E ok \in BOOLEAN :
         IF ok
         THEN /\ files' = MapInsert(files,
                     [ dir |-> ArtifactDir, name |-> ArtifactName,
                       report |-> FALSE ], input)
              /\ phase' = "report"
              /\ UNCHANGED io_error
         ELSE /\ io_error' = TRUE
              /\ phase' = "failed"
              /\ UNCHANGED files
    /\ UNCHANGED << exit_code, iters, iter, program_id, elf_bytes, emu, unique_ctr,
                    best_cov_hash, input, pre_snapshot, tx, vm, oracles,
                    signals, fold_n, out, runs >>

\* fs::write(rep_path, ..)?
PersistReport ==
    /\ phase = "report"
    /\ \E ok \in BOOLEAN :
         IF ok
         THEN /\ files' = MapInsert(files,
                     [ dir |-> ArtifactDir, name |-> ArtifactName,
                       report |-> TRUE ], out.report.value)
              /\ phase' = "feedback"
              /\ UNCHANGED io_error
         ELSE /\ io_error' = TRUE
              /\ phase' = "failed"
              /\ UNCHANGED files
    /\ UNCHANGED << exit_code, iters, iter, program_id, elf_bytes, emu, unique_ctr,
                    best_cov_hash, input, pre_snapshot, tx, vm, oracles,
                    signals, fold_n, out, runs >>

\* what the history keeps of the execution that just ended
RunRecord ==
    [ input |-> input,
      tx |-> tx,
      seed_hint |-> emu.semantic_seed_hint,
      layout_hint |-> emu.semantic_layout_hint,
      pre_snapshot |-> pre_snapshot,
      post_snapshot |-> vm.snap,
      events |-> vm.events,
      cov_hash |-> hash16(vm.coverage),
      signals |-> signals,
      saved |-> out.is_objective ]

\* emu.update_semantics(&out.semantics) and the end of the loop body
Feedback ==
    /\ phase = "feedback"
    /\ emu' = update_semantics(emu, out.semantics)
    /\ runs' = Append(runs, RunRecord)
    /\ iter' = iter + 1
    /\ phase' = "loop"
    /\ UNCHANGED << exit_code, iters, program_id, elf_bytes, unique_ctr, best_cov_hash,
                    input, pre_snapshot, tx, vm, oracles, signals, fold_n,
                    out, files, io_error >>

\* the loop ran out: Ok(())
LoopExit ==
    /\ phase = "loop" /\ iter >= iters
    /\ phase' = "done"
    /\ UNCHANGED << exit_code, iters, iter, program_id, elf_bytes, emu, unique_ctr,
                    best_cov_hash, input, pre_snapshot, tx, vm, oracles,
                    signals, fold_n, out, files, io_error, runs >>

\* main after run_fuzzdelsol returned: an Err is printed to stderr, and main
\* returns () either way, which ends the process with status 0
MainExit ==
    /\ phase \in {"done", "failed"}
    /\ exit_code' = Some(0)
    /\ phase' = "exited"
    /\ UNCHANGED << iters, iter, program_id, elf_bytes, emu, unique_ctr,
                    best_cov_hash, input, pre_snapshot, tx, vm, oracles,
                    signals, fold_n, out, files, io_error, runs >>

Next ==
    \/ BuildSnapshot
    \/ GenerateTx
    \/ VmEnter
    \/ VmStepCmp
    \/ VmStepRead
    \/ VmStepWriteLamports
    \/ VmStepWriteData
    \/ VmStepCpi
    \/ VmStepIntegerKey
    \/ OraclesInit
    \/ FoldEvent
    \/ Finalize
    \/ Evaluate
    \/ PersistPayload
    \/ PersistReport
    \/ Feedback
    \/ LoopExit
    \/ MainExit

Spec == Init /\ [][Next]_vars

-----------------------------------------------------------------------------
(* Properties of the fuzz loop *)

\* the signals and the oracle state belong to the events in vm.events
InOracles == phase \in {"fold", "evaluate", "persist", "report", "feedback",
                        "failed"}

\* finalize has run on the current execution
Finalized == phase \in {"evaluate", "persist", "report", "feedback", "failed"}

\* event j of the stream is an auth compare that sets saw_auth_cmp_with_taint
IsTaintedAuthCmp(j) ==
    /\ vm.events[j].kind = "Cmp"
    /\ vm.events[j].used_for_auth
    /\ (vm.events[j].lhs_tainted \/ vm.events[j].rhs_tainted
        \/ vm.taint.input_taint \/ vm.taint.data_acc_taint)

\* event j of the stream is a CPI to another program that is handed the
\* attacker key
IsForeignAttackerCpi(j) ==
    /\ vm.events[j].kind = "Cpi"
    /\ vm.events[j].invoked_program # program_id
    /\ \E p \in 1..Len(vm.events[j].provided) :
         vm.events[j].provided[p] = emu.attacker

\* C1: whenever acpi is raised, the folded part of the event stream holds a
\* Cpi to a program other than program_id whose provided list holds the
\* attacker, strictly after an auth Cmp that set saw_auth_cmp_with_taint; so
\* a foreign Cpi that comes before every auth Cmp raises nothing.
C1_AcpiNeedsEarlierAuthCmp ==
    (InOracles /\ signals.acpi) =>
        \E c \in 1..fold_n : \E a \in 1..(c - 1) :
            IsForeignAttackerCpi(c) /\ IsTaintedAuthCmp(a)

\* acpi raised by a run of the loop
C1_Witness ==
    /\ Finalized /\ signals.acpi
    /\ \E c \in 1..Len(vm.events) : IsForeignAttackerCpi(c) /\ c > 1

\* C5: whenever moc is raised, the event stream of the run holds a
\* ReadAccountData event whose owner is not program_id.
C5_MocNeedsForeignRead ==
    (InOracles /\ signals.moc) =>
        \E j \in 1..Len(vm.events) :
            /\ vm.events[j].kind = "ReadAccountData"
            /\ vm.events[j].owner # program_id

\* moc raised by a run of the loop
C5_Witness ==
    /\ Finalized /\ signals.moc
    /\ oracles.moc_malicious_reads # {}

\* event j of the stream is a key access used for auth whose required key is
\* neither provided nor a signer
IsMissingKeyAccess(j) ==
    /\ vm.events[j].kind = "KeyAccess"
    /\ vm.events[j].used_for_auth
    /\ \A p \in 1..Len(vm.events[j].provided_keys) :
         vm.events[j].provided_keys[p] # vm.events[j].required_key
    /\ vm.events[j].required_key \notin tx.signers

\* the key at index 0xE2 mod len of all_accounts_sorted
KeyOfE2 ==
    tx.all_accounts_sorted[(226 % Len(tx.all_accounts_sorted)) + 1]

\* C6: for instruction data [0xE2] the VM emits a KeyAccess with
\* used_for_auth = TRUE, no provided key and required_key =
\* all_accounts_sorted[0xE2 mod len], and mkc is raised when that key is not
\* a signer; in every run mkc is raised only by a KeyAccess used for auth
\* whose required key is neither provided nor a signer.
C6_MkcByE2 ==
    /\ (InOracles /\ tx.instruction.data = << 226 >>) =>
          \E j \in 1..Len(vm.events) :
              vm.events[j] = [ kind |-> "KeyAccess", required_key |-> KeyOfE2,
                               provided_keys |-> << >>,
                               used_for_auth |-> TRUE ]
    /\ (Finalized /\ tx.instruction.data = << 226 >>
          /\ KeyOfE2 \notin tx.signers) => signals.mkc
    /\ (InOracles /\ signals.mkc) =>
          \E j \in 1..fold_n : IsMissingKeyAccess(j)

\* data [0xE2] raised mkc
C6_Witness ==
    /\ Finalized /\ tx.instruction.data = << 226 >>
    /\ signals.mkc /\ KeyOfE2 \notin tx.signers

\* the executions of the history that started from the same buffer and the
\* same hints
SameStart(a, b) ==
    /\ runs[a].input = runs[b].input
    /\ runs[a].seed_hint = runs[b].seed_hint
    /\ runs[a].layout_hint = runs[b].layout_hint

C10_ReplayReproduces ==
    \A a \in 1..Len(runs) : \A b \in (a + 1)..Len(runs) :
        (runs[a].saved /\ runs[b].input = runs[a].input) =>
            /\ runs[b].signals = runs[a].signals
            /\ runs[b].cov_hash = runs[a].cov_hash

\* a saved payload was executed again under other hints and another counter
C10_Witness ==
    \E a \in 1..Len(runs) : \E b \in (a + 1)..Len(runs) :
        /\ runs[a].saved /\ runs[b].input = runs[a].input
        /\ runs[b].seed_hint # runs[a].seed_hint
        /\ runs[b].events # runs[a].events

\* the VM has been entered in the current iteration
InOrAfterVm == phase \in {"vm", "fold", "evaluate", "persist", "report",
                          "feedback", "failed"}

\* the accounts named by the write events of the stream
WrittenAccounts ==
    { vm.events[j].acct : j \in
        { j \in 1..Len(vm.events) :
            vm.events[j].kind \in {"WriteLamports", "WriteData"} } }

\* C11: during and after the VM run the driver's pre-snapshot equals the
\* snapshot built before the run; the writes of the run show in the
\* post-snapshot only, which differs from the pre-snapshot at written
\* accounts and nowhere else, and a lone lamport write shows there in full.
C11_PreSnapshotUntouched ==
    InOrAfterVm =>
        /\ pre_snapshot =
             build_snapshot(emu, program_id, elf_bytes, unique_ctr).snapshot
        /\ DOMAIN vm.snap.accounts = DOMAIN pre_snapshot.accounts
        /\ \A k \in DOMAIN pre_snapshot.accounts :
             vm.snap.accounts[k] # pre_snapshot.accounts[k]
                 => k \in WrittenAccounts
        /\ (Len(vm.events) = 1 /\ vm.events[1].kind = "WriteLamports"
              /\ vm.events[1].acct \in DOMAIN pre_snapshot.accounts) =>
             vm.snap.accounts[vm.events[1].acct].lamports =
               ApplyDelta(pre_snapshot.accounts[vm.events[1].acct].lamports,
                          vm.events[1].delta)

\* a run whose lamport write changed a balance of the post-snapshot
C11_Witness ==
    /\ Finalized
    /\ \E k \in WrittenAccounts \cap DOMAIN pre_snapshot.accounts :
         vm.snap.accounts[k].lamports # pre_snapshot.accounts[k].lamports

\* the instruction data of the current transaction is d and the attacker
\* signs it
AttackerSigns(d) ==
    tx.instruction.data = d /\ emu.attacker \in tx.signers

\* what the claim on [0xFF, second] says of a run: the first byte emits a
\* tainted, overflowed IntegerOp and sets the latch, the second byte is a
\* lamport write that credits BigGain to the attacker, finalize raises ib
OverflowThenGain(second) ==
    AttackerSigns(<< 255, second >>) =>
        /\ (phase = "vm" /\ vm.i = 1) =>
             /\ vm.events[1] = IntegerOp(TRUE, TRUE)
             /\ vm.pending_big_attacker_gain
        /\ InOracles =>
             /\ vm.events[1] = IntegerOp(TRUE, TRUE)
             /\ vm.events[Len(vm.events)] = WriteLamports(emu.attacker, BigGain)
             /\ vm.snap.accounts[emu.attacker].lamports =
                  pre_snapshot.accounts[emu.attacker].lamports + BigGain
        /\ Finalized => signals.ib

\* C13 as stated: data [0xFF, 0x21] signed by the attacker credits
\* 80_000_000 to the attacker and raises ib.
C13_AsStated == OverflowThenGain(33)

\* C13, amended: for data [0xFF, 0x41] in a transaction signed by the
\* attacker the first byte emits IntegerOp{tainted, overflowed} and sets the
\* latch, the second byte is an attacker-style lamport write that credits
\* 80_000_000 to the attacker, and finalize raises ib.
C13_OverflowThenAttackerWrite == OverflowThenGain(65)

\* [0xFF, 0x41] signed by the attacker raised ib
C13_Witness ==
    /\ Finalized /\ AttackerSigns(<< 255, 65 >>)
    /\ signals.ib
    /\ vm.snap.accounts[emu.attacker].lamports = WalletLamports + BigGain

\* what the claim on [0x01, second] says of a run: an auth Cmp with tainted
\* input that sets saw_auth_cmp_with_taint, then a Cpi to a program other
\* than program_id, and acpi when the attacker is the first meta
AuthCmpThenForeignCpi(second) ==
    (tx.instruction.data = << 1, second >>) =>
        /\ InOracles =>
             /\ vm.events[1] = Cmp(TRUE, FALSE, TRUE)
             /\ Len(vm.events) = 2
             /\ vm.events[2].kind = "Cpi"
             /\ vm.events[2].invoked_program # program_id
        /\ (Finalized \/ (phase = "fold" /\ fold_n >= 1)) =>
             oracles.saw_auth_cmp_with_taint
        /\ (Finalized /\ tx.instruction.accounts[1].pubkey = emu.attacker) =>
             signals.acpi

\* C14 as stated: data [0x01, 0x80] emits a foreign Cpi and raises acpi when
\* the attacker is the first meta.
C14_AsStated == AuthCmpThenForeignCpi(128)

\* C14, amended: for data [0x01, 0x81] byte 0 emits an auth Cmp with tainted
\* input that sets saw_auth_cmp_with_taint, byte 1 emits a Cpi whose
\* invoked_program differs from program_id, and acpi is raised whenever the
\* attacker is the first account meta of the instruction.
C14_AuthCmpThenOddCpi == AuthCmpThenForeignCpi(129)

\* [0x01, 0x81] with the attacker as first meta raised acpi
C14_Witness ==
    /\ Finalized /\ tx.instruction.data = << 1, 129 >>
    /\ tx.instruction.accounts[1].pubkey = emu.attacker
    /\ signals.acpi

\* the modes (b & 3) of the write-lamports bytes of the instruction data
LamportModes ==
    { tx.instruction.data[j] % 4 : j \in
        { j \in 1..Len(tx.instruction.data) :
            tx.instruction.data[j] \div 32 = 2 } }

\* the user was debited and the attacker credited, and theft was raised
UserDebitedAttackerCredited ==
    /\ vm.snap.accounts[emu.user].lamports
         < pre_snapshot.accounts[emu.user].lamports
    /\ vm.snap.accounts[emu.attacker].lamports
         > pre_snapshot.accounts[emu.attacker].lamports
    /\ signals.lamports_theft

\* the attacker signs the current transaction and the user does not
OnlyAttackerSigns == tx.signers = {emu.attacker}

\* C15 as stated: with only the attacker signing, data that contains a
\* mode-0 and a mode-1 lamport write raises lamports_theft.
C15_AsStated ==
    (Finalized /\ OnlyAttackerSigns /\ {0, 1} \subseteq LamportModes)
        => UserDebitedAttackerCredited

\* C15, amended: with only the attacker signing, data whose lamport writes
\* are of mode 0 and of mode 1 only, with at least one of each, debits the
\* user and credits the attacker, and finalize raises lamports_theft.
C15_TheftByMode0AndMode1 ==
    (Finalized /\ OnlyAttackerSigns /\ LamportModes = {0, 1})
        => UserDebitedAttackerCredited

\* a mode-0 and a mode-1 write raised theft
C15_Witness ==
    /\ Finalized /\ OnlyAttackerSigns /\ LamportModes = {0, 1}
    /\ signals.lamports_theft

\* evaluate has run on the current execution
Evaluated == phase \in {"persist", "report", "feedback", "failed"}

\* C16: with empty instruction data the VM emits no event, leaves
\* input_taint and data_acc_taint false and returns the pre-snapshot, no
\* signal is raised, the evaluator returns is_objective = FALSE with no report
\* and no hints, and the fingerprint is that of a fresh coverage map.
C16_EmptyDataIsNoOp ==
    (tx.instruction.data = << >>) =>
        /\ InOrAfterVm =>
             /\ vm.events = << >>
             /\ ~vm.taint.input_taint /\ ~vm.taint.data_acc_taint
             /\ vm.snap = pre_snapshot
             /\ hash16(vm.coverage) = hash16(CoverageNew(CoverageSize))
        /\ InOracles => signals = NoSignals
        /\ Evaluated =>
             /\ ~out.is_objective
             /\ out.report = None
             /\ out.semantics.new_pda_seed_hint = None
             /\ out.semantics.new_account_layout_hint = None
             /\ phase = "feedback"

\* an empty-data run whose fingerprint was new to the evaluator
C16_Witness ==
    /\ phase = "feedback" /\ tx.instruction.data = << >>
    /\ out.is_new_coverage
    /\ pre_snapshot # NoSnapshot

\* C18: a write failure while persisting the payload or the report of an
\* objective does not abort the loop: when the process has ended after such
\* a failure, every iteration after the failing one has been executed.
C18_LoopSurvivesWriteFailure ==
    (phase = "exited" /\ io_error) => iter + 1 >= iters

\* C19: a failed artifact write reaches the entry point as the error that
\* run_fuzzdelsol returns and the process ends with a non-zero exit code;
\* when every iteration completes without an I/O error it ends with 0.
C19_ExitCodeTellsFailure ==
    (phase = "exited") =>
        /\ exit_code.some
        /\ io_error => exit_code.value # 0
        /\ ~io_error => (exit_code.value = 0 /\ iter = iters)

\* byte b is of opcode 5..7 and overflows
OverflowByte(b) == b \div 32 >= 5 /\ b % 16 = 15

\* byte b is a write-lamports byte of mode 1
Mode1Write(b) == b \div 32 = 2 /\ b % 4 = 1

\* among the first n bytes of the instruction data there is an overflow byte
\* with no mode-1 lamport write after it
LatchAfter(n) ==
    \E i \in 1..n :
        /\ OverflowByte(tx.instruction.data[i])
        /\ \A k \in (i + 1)..n : ~Mode1Write(tx.instruction.data[k])

\* the events the VM step at hand appends
NewEvents == SubSeq(vm'.events, Len(vm.events) + 1, Len(vm'.events))

\* one turn of the VM loop treats the latch as a one-shot
LatchStep ==
    (phase = "vm" /\ phase' = "vm" /\ vm'.i = vm.i + 1) =>
        LET overflow == /\ VmByte \div 32 >= 5
                        /\ Contains(NewEvents, IntegerOp(TRUE, TRUE))
            big == \E j \in 1..Len(NewEvents) :
                       /\ NewEvents[j].kind = "WriteLamports"
                       /\ NewEvents[j].delta = BigGain
        IN  /\ vm'.pending_big_attacker_gain =
                  (IF overflow THEN TRUE
                   ELSE IF Mode1Write(VmByte) THEN FALSE
                   ELSE vm.pending_big_attacker_gain)
            /\ big <=> (Mode1Write(VmByte) /\ vm.pending_big_attacker_gain)

\* the events of the stream that satisfy test
CountEvents(test(_)) ==
    Cardinality({ j \in 1..Len(vm.events) : test(vm.events[j]) })

\* C21: the latch is set only by a byte of opcode 5..7 that emits
\* IntegerOp{tainted, overflowed}, cleared only by the next mode-1 lamport
\* write and left alone by every other byte; a WriteLamports of 80_000_000
\* is emitted only by a mode-1 write that finds the latch set, that is after
\* an overflow byte with no mode-1 write in between, and the stream never
\* holds more such gains than tainted-overflow events.
C21_LatchIsOneShot ==
    /\ [][LatchStep]_vars
    /\ [](phase = "vm" =>
             vm.pending_big_attacker_gain = LatchAfter(vm.i))
    /\ [](InOrAfterVm =>
             CountEvents(LAMBDA e : e.kind = "WriteLamports"
                                     /\ e.delta = BigGain)
               <= CountEvents(LAMBDA e : e = IntegerOp(TRUE, TRUE)))

\* an overflow followed by two mode-1 writes: the first gains 80_000_000,
\* the second the plain amount
C21_Witness ==
    /\ Finalized /\ tx.instruction.data = << 255, 65, 65 >>
    /\ Len(vm.events) = 4
    /\ vm.events[3].delta = BigGain
    /\ vm.events[4].delta = 20000

\* event j of the stream is a Cmp used for auth
IsAuthCmp(j) == vm.events[j].kind = "Cmp" /\ vm.events[j].used_for_auth

\* event j of the stream is a read of an account that program_id does not own
IsForeignRead(j) ==
    vm.events[j].kind = "ReadAccountData" /\ vm.events[j].owner # program_id

\* a step that sets auth_depends_on_malicious folds an auth Cmp that comes
\* after a folded foreign read
AuthDependsStep ==
    (~oracles.auth_depends_on_malicious /\ oracles'.auth_depends_on_malicious)
        => /\ phase = "fold" /\ fold_n' = fold_n + 1
           /\ IsAuthCmp(fold_n + 1)
           /\ \E j \in 1..fold_n : IsForeignRead(j)

\* every foreign read of the stream comes after every auth Cmp
ReadsAfterLastAuthCmp ==
    \A r \in 1..Len(vm.events) : \A c \in 1..Len(vm.events) :
        (IsForeignRead(r) /\ IsAuthCmp(c)) => c < r

\* C22: auth_depends_on_malicious is set only while an auth Cmp is folded
\* after a ReadAccountData whose owner is not program_id; a run whose foreign
\* reads all come after its last auth Cmp does not raise moc, whatever
\* data_acc_taint the oracles were handed.
C22_MocNeedsReadBeforeAuthCmp ==
    /\ [][AuthDependsStep]_vars
    /\ []((Finalized /\ ReadsAfterLastAuthCmp) =>
             (~oracles.auth_depends_on_malicious /\ ~signals.moc))

\* an auth Cmp, then a foreign read, then a write to the user: the taint
\* state has data_acc_taint, the user is a modified writable meta, and moc
\* stays down
C22_Witness ==
    /\ Finalized /\ tx.instruction.data = << 1, 39, 64 >>
    /\ IsAuthCmp(1) /\ IsForeignRead(2)
    /\ vm.taint.data_acc_taint
    /\ oracles.saw_auth_cmp /\ oracles.moc_malicious_reads # {}
    /\ emu.user \in oracles.modified_accounts
    /\ ~signals.moc

\* owner of key k in the snapshot built for the current iteration
SnapshotOwner(k) == pre_snapshot.accounts[k].owner

\* the selector slots of the current buffer whose byte takes the malicious
\* pool
MaliciousSlots ==
    LET n_accounts == Max(GetOr(input, 0, DefaultNRaw) % 8, 1)
        mode == GetOr(input, 2, DefaultMode)
    IN  { j \in 0..(n_accounts - 1) :
            GetOr(input, 3 + j, (j * 17) % 256) % MalMod(mode) = 0 }

\* C23: for every selectable key other than attacker, user and program_id
\* the generator holds the key in its malicious pool iff the snapshot of the
\* same emulator gives it an owner other than program_id, and in its benign
\* pool iff that owner is program_id; so a selector byte b with
\* b mod mal_mod = 0 selects an account whose snapshot owner is not
\* program_id.
C23_PoolsAgreeWithOwners ==
    (phase = "run") =>
        /\ \A j \in 1..Len(emu.selectable_accounts) :
             LET k == emu.selectable_accounts[j] IN
             (k \notin {emu.attacker, emu.user, program_id}) =>
                 /\ Contains(MaliciousPool(emu), k)
                       <=> (SnapshotOwner(k) # program_id)
                 /\ Contains(BenignPool(emu), k)
                       <=> (SnapshotOwner(k) = program_id)
        /\ \A j \in MaliciousSlots :
             SnapshotOwner(ChooseAccount(input, emu,
                                         GetOr(input, 2, DefaultMode), j))
                 # program_id

\* C24: at the start of event folding in every iteration the six signals
\* are false and saw_auth_cmp, saw_auth_cmp_with_taint,
\* auth_depends_on_malicious, saw_tainted_overflow are false and
\* msc_candidates, moc_malicious_reads, modified_accounts are empty, whatever
\* earlier iterations raised.
C24_OracleStatePerIteration ==
    (phase = "fold" /\ fold_n = 0) =>
        /\ signals = NoSignals
        /\ ~oracles.saw_auth_cmp
        /\ ~oracles.saw_auth_cmp_with_taint
        /\ ~oracles.auth_depends_on_malicious
        /\ ~oracles.saw_tainted_overflow
        /\ oracles.msc_candidates = {}
        /\ oracles.moc_malicious_reads = {}
        /\ oracles.modified_accounts = {}

\* folding starts in an iteration that follows one which raised a signal
C24_Witness ==
    /\ phase = "fold" /\ fold_n = 0 /\ iter >= 1
    /\ any(runs[Len(runs)].signals)
    /\ vm.events # << >>

\* the call of evaluate at hand leaves the fingerprint of its run in
\* best_cov_hash and reports new coverage iff that differs from the old value
EvaluateStep ==
    (phase = "evaluate" /\ phase' # "evaluate") =>
        /\ best_cov_hash' = hash16(vm.coverage)
        /\ out'.is_new_coverage <=> (hash16(vm.coverage) # best_cov_hash)

\* C25: after every call of evaluate best_cov_hash is the fingerprint of
\* the run just evaluated and is_new_coverage tells whether that fingerprint
\* differed from the value held before the call; from the second iteration
\* on that value is the fingerprint of the iteration before, so a
\* fingerprint seen earlier counts as new again when the iteration before
\* had another one.
C25_BestIsLastFingerprint ==
    /\ [][EvaluateStep]_vars
    /\ [](Evaluated =>
             /\ best_cov_hash = hash16(vm.coverage)
             /\ runs # << >> =>
                  (out.is_new_coverage <=>
                      hash16(vm.coverage) # runs[Len(runs)].cov_hash))

\* the third iteration repeats the fingerprint of the first, the second had
\* another one, and the evaluator reports new coverage
C25_Witness ==
    /\ Evaluated /\ Len(runs) = 2
    /\ hash16(vm.coverage) = runs[1].cov_hash
    /\ hash16(vm.coverage) # runs[2].cov_hash
    /\ out.is_new_coverage

\* the directory the signals of the current iteration call for
RoutedDir == IF signals.lamports_theft THEN "crashes" ELSE "bugs"

\* the paths whose contents the step at hand creates or changes
WrittenPaths ==
    { f \in DOMAIN files' : f \notin DOMAIN files \/ files'[f] # files[f] }

\* a step that writes a file belongs to an iteration with a raised signal
\* and writes into the directory the signals call for
WriteStep ==
    (WrittenPaths # {}) =>
        /\ phase \in {"persist", "report"}
        /\ any(signals)
        /\ \A f \in WrittenPaths : f.dir = RoutedDir

\* the paths of the payload and of the report of the current iteration
PayloadPath ==
    [ dir |-> RoutedDir, name |-> Hex16(hash16(vm.coverage)), report |-> FALSE ]
ReportPath ==
    [ dir |-> RoutedDir, name |-> Hex16(hash16(vm.coverage)), report |-> TRUE ]

\* C26: in every iteration the driver writes artifacts exactly when some
\* signal is raised: it goes on to write iff any() holds, the payload and
\* the report go to crashes/ when lamports_theft is raised, whatever else
\* is raised, and to bugs/ otherwise, and an iteration without a signal
\* writes nothing.
C26_ArtifactRouting ==
    /\ [][WriteStep]_vars
    /\ [][(phase = "evaluate" /\ phase' # "evaluate") =>
            ((phase' = "persist") <=> any(signals))]_vars
    /\ []((phase \in {"persist", "report", "failed"}) => any(signals))
    /\ []((phase = "report") =>
             (PayloadPath \in DOMAIN files /\ files[PayloadPath] = input))
    /\ []((phase = "feedback" /\ any(signals)) =>
             /\ PayloadPath \in DOMAIN files /\ files[PayloadPath] = input
             /\ ReportPath \in DOMAIN files
             /\ files[ReportPath].vuln_class = class(signals))

\* theft raised together with ib: payload and report lie in crashes/
C26_Witness ==
    /\ phase = "feedback"
    /\ signals.lamports_theft /\ signals.ib
    /\ DOMAIN files =
         { [ dir |-> "crashes", name |-> Hex16(hash16(vm.coverage)),
             report |-> r ] : r \in BOOLEAN }

\* the hint after an update: the value of the field when it is present,
\* the hint as it was when it is absent
HintAfter(field, hint) == IF field.some THEN field.value ELSE hint

\* the emulator changes only in the update at the end of an iteration, and
\* there only in its two hints, each by its own field
SemanticsStep ==
    /\ emu'.attacker = emu.attacker
    /\ emu'.user = emu.user
    /\ emu'.selectable_accounts = emu.selectable_accounts
    /\ (emu' # emu) => phase = "feedback"
    /\ (phase = "feedback" /\ phase' = "loop") =>
         /\ emu'.semantic_seed_hint =
              HintAfter(out.semantics.new_pda_seed_hint,
                        emu.semantic_seed_hint)
         /\ emu'.semantic_layout_hint =
              HintAfter(out.semantics.new_account_layout_hint,
                        emu.semantic_layout_hint)

\* C27: update_semantics replaces the seed hint iff new_pda_seed_hint is
\* present and the layout hint iff new_account_layout_hint is present, a
\* hint whose field is absent keeps its value, and attacker, user and the
\* selectable pool stay as minted through every update_semantics and
\* build_snapshot call of the loop.
C27_HintsReplacedWhenPresent ==
    /\ [][SemanticsStep]_vars
    /\ [](emu.attacker = 2 /\ emu.user = 3
           /\ emu.selectable_accounts = MintKeys(2, 2 + PoolExtra))

\* an update that replaced the seed hint and kept a layout hint set by an
\* earlier iteration
C27_Witness ==
    /\ phase = "loop" /\ iter >= 2
    /\ out.semantics.new_account_layout_hint = None
    /\ emu.semantic_layout_hint # << >>
    /\ out.semantics.new_pda_seed_hint.some
    /\ emu.semantic_seed_hint = out.semantics.new_pda_seed_hint.value
    /\ runs[Len(runs)].seed_hint # emu.semantic_seed_hint
    /\ runs[Len(runs)].layout_hint = emu.semantic_layout_hint

\* C28: every Cmp event the VM emits has lhs_tainted and every IntegerOp
\* event has tainted, since input_taint holds whenever a byte is processed;
\* so at every fold position saw_auth_cmp_with_taint equals saw_auth_cmp,
\* and once the stream is folded saw_tainted_overflow holds iff some byte b
\* of the data has b >> 5 >= 5 and b & 15 = 15.
C28_TaintGateNeverFilters ==
    /\ InOrAfterVm =>
          /\ (vm.events # << >>) => vm.taint.input_taint
          /\ \A j \in 1..Len(vm.events) :
               /\ vm.events[j].kind = "Cmp" => vm.events[j].lhs_tainted
               /\ vm.events[j].kind = "IntegerOp" => vm.events[j].tainted
    /\ InOracles =>
          oracles.saw_auth_cmp_with_taint = oracles.saw_auth_cmp
    /\ Finalized =>
          (oracles.saw_tainted_overflow <=>
              \E j \in 1..Len(tx.instruction.data) :
                  OverflowByte(tx.instruction.data[j]))

\* an auth Cmp whose only taint is its left operand, and an overflow
C28_Witness ==
    /\ Finalized /\ tx.instruction.data = << 1, 255 >>
    /\ vm.events[1] = Cmp(TRUE, FALSE, TRUE)
    /\ ~vm.taint.data_acc_taint
    /\ oracles.saw_auth_cmp /\ oracles.saw_auth_cmp_with_taint
    /\ oracles.saw_tainted_overflow

\* the keys of the account list of the current transaction
ListedKeys ==
    { tx.all_accounts_sorted[j] : j \in 1..Len(tx.all_accounts_sorted) }

\* the bytes of the instruction data the VM has processed so far
ProcessedBytes == 1..vm.i

\* C29: the account list of the generated transaction is non-empty, holds
\* the user and every signer, and every key of it is an account of the
\* pre-snapshot built by the same emulator; so in the loop pick_acct always
\* returns a listed key, every write event targets an account the VM's
\* snapshot holds, and every write-data byte emits a WriteData event.
C29_ListedAccountsExist ==
    (phase = "run" \/ InOrAfterVm) =>
        /\ tx.all_accounts_sorted # << >>
        /\ emu.user \in ListedKeys
        /\ tx.signers \subseteq ListedKeys
        /\ ListedKeys \subseteq DOMAIN pre_snapshot.accounts
        /\ \A b \in 0..255 : pick_acct(b, tx, program_id) \in ListedKeys
        /\ InOrAfterVm =>
             /\ WrittenAccounts \subseteq ListedKeys
             /\ WrittenAccounts \subseteq DOMAIN vm.snap.accounts
             /\ CountEvents(LAMBDA e : e.kind = "WriteData") =
                  Cardinality({ j \in ProcessedBytes :
                                  tx.instruction.data[j] \div 32 = 3 })

\* a write-data byte that changed the data of a listed pool account
C29_Witness ==
    /\ Finalized /\ tx.instruction.data = << 98 >>
    /\ emu.attacker \in tx.signers
    /\ vm.events = << WriteData(4, 2) >>
    /\ vm.snap.accounts[4].data # pre_snapshot.accounts[4].data

\* the keys build_snapshot gives the hinted data buffer: the selectable
\* accounts that are neither identity nor the program
HintedKeys ==
    { emu.selectable_accounts[j] : j \in 1..Len(emu.selectable_accounts) }
        \ { emu.attacker, emu.user, program_id }

\* two snapshots that agree on everything but the data bytes of the
\* accounts of HintedKeys
SameButHintedData(s1, s2) ==
    /\ s1.program_id = s2.program_id
    /\ DOMAIN s1.accounts = DOMAIN s2.accounts
    /\ \A k \in DOMAIN s1.accounts :
         /\ s1.accounts[k].owner = s2.accounts[k].owner
         /\ s1.accounts[k].lamports = s2.accounts[k].lamports
         /\ s1.accounts[k].is_signer = s2.accounts[k].is_signer
         /\ s1.accounts[k].is_writable = s2.accounts[k].is_writable
         /\ s1.accounts[k].is_executable = s2.accounts[k].is_executable
         /\ Len(s1.accounts[k].data) = Len(s2.accounts[k].data)
         /\ k \notin HintedKeys => s1.accounts[k].data = s2.accounts[k].data

\* the executions of the history that started from the same buffer
SameInput(a, b) == runs[a].input = runs[b].input

\* C31: two executions of the same buffer under the same identities and
\* any two pairs of hints yield the same transaction, the same coverage
\* fingerprint and the same six signals, and their pre-snapshots and their
\* post-snapshots differ at most in the data bytes of pool accounts.
C31_HintsDoNotInfluenceDetection ==
    \A a \in 1..Len(runs) : \A b \in 1..Len(runs) :
        SameInput(a, b) =>
            /\ runs[a].tx = runs[b].tx
            /\ runs[a].cov_hash = runs[b].cov_hash
            /\ runs[a].signals = runs[b].signals
            /\ SameButHintedData(runs[a].pre_snapshot, runs[b].pre_snapshot)
            /\ SameButHintedData(runs[a].post_snapshot, runs[b].post_snapshot)

\* a buffer that raised a signal was executed again after both hints had
\* changed, and pool data differ in the pre- and in the post-snapshots
C31_Witness ==
    \E a \in 1..Len(runs) : \E b \in 1..Len(runs) :
        /\ SameInput(a, b)
        /\ runs[a].seed_hint # runs[b].seed_hint
        /\ runs[a].layout_hint # runs[b].layout_hint
        /\ any(runs[a].signals)
        /\ \E k \in HintedKeys :
             /\ runs[a].pre_snapshot.accounts[k].data #
                  runs[b].pre_snapshot.accounts[k].data
             /\ runs[a].post_snapshot.accounts[k].data #
                  runs[b].post_snapshot.accounts[k].data

-----------------------------------------------------------------------------
(* The oracle engine on its own: Oracles::new, then process_event on any    *)
(* event stream, then finalize on any post-snapshot                         *)

\* transactions handed to the oracle engine: generated from these buffers
OracleInputs == { << 1, 1, 34, 0 >>, << 2, 0, 16, 5, 8 >> }

\* taint states handed to process_event: (input_taint, data_acc_taint)
OracleTaints == { << FALSE, FALSE >>, << TRUE, FALSE >>, << TRUE, TRUE >> }

\* the pool key of a generated transaction with the largest key
LastKey(t) == t.all_accounts_sorted[Len(t.all_accounts_sorted)]

\* events handed to process_event for transaction t
OracleEvents(t) ==
    { Cmp(TRUE, FALSE, TRUE), Cmp(FALSE, FALSE, TRUE),
      ReadAccountData(LastKey(t), SystemProgram),
      WriteLamports(emu.user, -10000), WriteLamports(LastKey(t), -10000),
      WriteData(emu.attacker, 1),
      Cpi(SystemProgram, << emu.attacker >>), Cpi(program_id, << emu.attacker >>),
      KeyAccess(LastKey(t), << >>, TRUE),
      IntegerOp(TRUE, TRUE), IntegerOp(FALSE, TRUE), IntegerOp(TRUE, FALSE) }

\* lamport changes of (attacker, user, last pool key) between the pre- and
\* the post-snapshot handed to finalize
PostDeltas ==
    { << 0, 0, 0 >>, << 1, -1, 0 >>, << 1, 0, -1 >>, << 0, -1, -1 >>,
      << IbMargin, -1, 0 >>, << IbMargin + 1, 0, 0 >> }

\* the post-snapshot of a delta triple
PostOf(pre, t, d) ==
    [ pre EXCEPT
        !.accounts[emu.attacker].lamports = @ + d[1],
        !.accounts[emu.user].lamports = @ + d[2],
        !.accounts[LastKey(t)].lamports = @ + d[3] ]

InitOracle ==
    /\ phase = "oracle"
    /\ iters = 1
    /\ iter = 0
    /\ program_id = 1
    /\ elf_bytes = << >>
    /\ emu = EmulatorNew(2)
    /\ unique_ctr = 4 + PoolExtra
    /\ best_cov_hash = U64(0)
    /\ input \in OracleInputs
    /\ pre_snapshot = build_snapshot(emu, program_id, elf_bytes, unique_ctr).snapshot
    /\ tx = from_bytes(input, emu, program_id)
    /\ \E tn \in OracleTaints :
         vm = [ VmStart(pre_snapshot, tx) EXCEPT
                  !.taint.input_taint = tn[1], !.taint.data_acc_taint = tn[2] ]
    /\ oracles = OraclesNew(Ctx, pre_snapshot)
    /\ signals = NoSignals
    /\ fold_n = 0
    /\ out = NoOutcome
    /\ files = << >>
    /\ io_error = FALSE
    /\ runs = << >>
    /\ exit_code = None

\* process_event on one more event
OracleFeed ==
    /\ phase = "oracle"
    /\ fold_n < MaxEvents
    /\ \E ev \in OracleEvents(tx) :
         /\ vm' = [ vm EXCEPT !.events = Append(@, ev) ]
         /\ LET r == process_event(oracles, tx, vm.taint, ev, signals) IN
              /\ oracles' = r.oracles
              /\ signals' = r.signals
    /\ fold_n' = fold_n + 1
    /\ UNCHANGED << exit_code, phase, iters, iter, program_id, elf_bytes, emu,
                    unique_ctr, best_cov_hash, input, pre_snapshot, tx, out,
                    files, io_error, runs >>

\* finalize on a post-snapshot
OracleFinalize ==
    /\ phase = "oracle"
    /\ \E d \in PostDeltas :
         /\ vm' = [ vm EXCEPT !.snap = PostOf(pre_snapshot, tx, d) ]
         /\ signals' = finalize(oracles, tx, pre_snapshot,
                                PostOf(pre_snapshot, tx, d), signals)
    /\ phase' = "oracle_done"
    /\ UNCHANGED << exit_code, iters, iter, program_id, elf_bytes, emu, unique_ctr,
                    best_cov_hash, input, pre_snapshot, tx, oracles, fold_n,
                    out, files, io_error, runs >>

NextOracle == OracleFeed \/ OracleFinalize

SpecOracle == InitOracle /\ [][NextOracle]_vars

-----------------------------------------------------------------------------
(* Properties of the oracle engine *)

\* lamports of key k in the pre- and in the post-snapshot
PreLamports(k) == pre_snapshot.accounts[k].lamports
PostLamports(k) == vm.snap.accounts[k].lamports

\* C2: starting from lamports_theft = FALSE, finalize raises lamports_theft
\* exactly when the attacker is a signer of the transaction, the user holds
\* strictly fewer lamports after than before and the attacker strictly more;
\* so it is never raised for a transaction the attacker did not sign.
C2_TheftIff ==
    (phase = "oracle_done") =>
        (signals.lamports_theft <=>
            /\ emu.attacker \in tx.signers
            /\ PostLamports(emu.user) < PreLamports(emu.user)
            /\ PostLamports(emu.attacker) > PreLamports(emu.attacker))

\* finalize raised lamports_theft
C2_Witness ==
    /\ phase = "oracle_done" /\ signals.lamports_theft
    /\ emu.attacker \in tx.signers

\* accounts targeted by a WriteLamports or WriteData event of the stream
WrittenByEvents ==
    { vm.events[j].acct : j \in
        { j \in 1..Len(vm.events) :
            vm.events[j].kind \in {"WriteLamports", "WriteData"} } }

\* keys of the metas of the transaction that are writable and do not sign
WritableNonSignerMetas ==
    { tx.instruction.accounts[j].pubkey : j \in
        { j \in 1..Len(tx.instruction.accounts) :
            /\ tx.instruction.accounts[j].is_writable
            /\ ~tx.instruction.accounts[j].is_signer } }

\* C3: starting from msc = FALSE, finalize raises msc exactly when
\* saw_auth_cmp_with_taint holds and some account that a WriteLamports or
\* WriteData event targeted and that is a writable non-signer meta of the
\* transaction holds strictly fewer lamports after than before; so msc
\* implies saw_auth_cmp_with_taint.
C3_MscIff ==
    (phase = "oracle_done") =>
        (signals.msc <=>
            /\ oracles.saw_auth_cmp_with_taint
            /\ \E acct \in WrittenByEvents \cap WritableNonSignerMetas :
                 PostLamports(acct) < PreLamports(acct))

\* finalize raised msc
C3_Witness ==
    /\ phase = "oracle_done" /\ signals.msc
    /\ oracles.msc_candidates # {}

\* C4: starting from ib = FALSE, finalize raises ib exactly when an
\* IntegerOp event with tainted and overflowed both true was folded and the
\* attacker holds strictly more than its pre-snapshot lamports plus
\* 50_000_000 (a gain of exactly 50_000_000 raises nothing); so ib implies
\* that such an event was emitted.
C4_IbIff ==
    (phase = "oracle_done") =>
        (signals.ib <=>
            /\ \E j \in 1..Len(vm.events) :
                 /\ vm.events[j].kind = "IntegerOp"
                 /\ vm.events[j].tainted /\ vm.events[j].overflowed
            /\ PostLamports(emu.attacker) > PreLamports(emu.attacker) + 50000000)

\* finalize raised ib
C4_Witness ==
    /\ phase = "oracle_done" /\ signals.ib
    /\ PostLamports(emu.attacker) = PreLamports(emu.attacker) + 50000001

-----------------------------------------------------------------------------
(* The transaction generator on its own: from_bytes on any buffer *)

\* bytes of the buffers: small and large n_raw (16 gives n_raw % 8 = 0),
\* every signer mask, modes with either ratio, selectors that collide with
\* the defaults
TxBytes == { 1, 3, 16, 34, 255 }

InitTx ==
    /\ phase = "txgen"
    /\ iters = 1
    /\ iter = 0
    /\ program_id = 1
    /\ elf_bytes = << >>
    /\ emu = EmulatorNew(2)
    /\ unique_ctr = 4 + PoolExtra
    /\ best_cov_hash = U64(0)
    /\ input \in SeqsUpTo(TxBytes, MaxTxLen)
    /\ pre_snapshot = NoSnapshot
    /\ tx = NoTx
    /\ vm = NoVm
    /\ oracles = OraclesNew([ program_id |-> 1, attacker |-> 2, user |-> 3 ],
                            NoSnapshot)
    /\ signals = NoSignals
    /\ fold_n = 0
    /\ out = NoOutcome
    /\ files = << >>
    /\ io_error = FALSE
    /\ runs = << >>
    /\ exit_code = None

\* TxGenerator::from_bytes(&input, &emu, program_id)
TxFromBytes ==
    /\ phase = "txgen"
    /\ tx' = from_bytes(input, emu, program_id)
    /\ phase' = "txgen_done"
    /\ UNCHANGED << exit_code, iters, iter, program_id, elf_bytes, emu, unique_ctr,
                    best_cov_hash, input, pre_snapshot, vm, oracles, signals,
                    fold_n, out, files, io_error, runs >>

NextTx == TxFromBytes

SpecTx == InitTx /\ [][NextTx]_vars

\* the keys pushed by from_bytes before its sort: n_accounts chosen ones, the
\* user, and the attacker when it is included
PushedCount ==
    Max(GetOr(input, 0, 3) % 8, 1) + 1
    + (IF Bit(GetOr(input, 1, 1), 1) \/ Bit(GetOr(input, 2, 34), 16)
       THEN 1 ELSE 0)

\* C7: for every buffer the transaction of from_bytes has
\* all_accounts_sorted in strictly increasing key order, and the metas of
\* its instruction list the same keys in the same order.
C7_SortedDedupMetas ==
    (phase = "txgen_done") =>
        /\ \A j \in 1..(Len(tx.all_accounts_sorted) - 1) :
             tx.all_accounts_sorted[j] < tx.all_accounts_sorted[j + 1]
        /\ Len(tx.instruction.accounts) = Len(tx.all_accounts_sorted)
        /\ \A j \in 1..Len(tx.all_accounts_sorted) :
             tx.instruction.accounts[j].pubkey = tx.all_accounts_sorted[j]

\* a buffer whose chosen keys repeat
C7_Witness ==
    /\ phase = "txgen_done"
    /\ Len(tx.all_accounts_sorted) < PushedCount
    /\ Len(tx.all_accounts_sorted) >= 3

\* C8: for every buffer and every meta m of the instruction, m.is_signer
\* implies m.pubkey in tx.signers, and tx.signers holds the attacker iff bit
\* 0 of signer_mask is set and the user iff bit 1 is set.
C8_SignerMetasAreSigners ==
    (phase = "txgen_done") =>
        /\ \A j \in 1..Len(tx.instruction.accounts) :
             tx.instruction.accounts[j].is_signer
                 => tx.instruction.accounts[j].pubkey \in tx.signers
        /\ (emu.attacker \in tx.signers) <=> (GetOr(input, 1, 1) % 2 = 1)
        /\ (emu.user \in tx.signers) <=> ((GetOr(input, 1, 1) \div 2) % 2 = 1)
        /\ tx.signers \subseteq {emu.attacker, emu.user}

\* a transaction with a signing and a non-signing identity
C8_Witness ==
    /\ phase = "txgen_done"
    /\ tx.signers = {emu.attacker}
    /\ \E j \in 1..Len(tx.instruction.accounts) :
         /\ tx.instruction.accounts[j].pubkey = emu.user
         /\ ~tx.instruction.accounts[j].is_signer

\* n_accounts of the current buffer, n_raw defaulted when missing
HeaderAccounts ==
    Max((IF Len(input) >= 1 THEN input[1] ELSE 3) % 8, 1)

\* the current buffer with every missing header and selector byte written
\* out: n_raw = 3, signer_mask = 0x01, mode = 0x22, selector j = 17 * j
Padded ==
    [ p \in 1..Max(Len(input), 3 + HeaderAccounts) |->
        IF p <= Len(input) THEN input[p]
        ELSE IF p = 1 THEN 3
        ELSE IF p = 2 THEN 1
        ELSE IF p = 3 THEN 34
        ELSE 17 * (p - 4) ]

\* C20: from_bytes returns for every buffer, the empty one included: a
\* missing header or selector byte counts as its default (so the result is
\* that of the buffer with the defaults written out), neither pool is empty,
\* and the instruction data is the bytes after offset 3 + n_accounts, none
\* when the buffer is shorter.
C20_DefaultsAbsorbShortBuffers ==
    /\ (phase = "txgen") =>
          LET t == from_bytes(input, emu, program_id) IN
            /\ t.instruction.program_id = program_id
            /\ Len(t.instruction.accounts) = Len(t.all_accounts_sorted)
            /\ t.signers \subseteq {emu.attacker, emu.user}
    /\ (phase \in {"txgen", "txgen_done"}) =>
          BenignPool(emu) # << >> /\ MaliciousPool(emu) # << >>
    /\ (phase = "txgen_done") =>
          /\ tx = from_bytes(Padded, emu, program_id)
          /\ tx.instruction.data =
               [ p \in 1..Max(Len(input) - (3 + HeaderAccounts), 0) |->
                   input[3 + HeaderAccounts + p] ]
          /\ Len(tx.all_accounts_sorted) >= 1

\* the empty buffer: three defaulted selectors, the attacker signs
C20_Witness ==
    /\ phase = "txgen_done" /\ input = << >>
    /\ tx.signers = {emu.attacker}
    /\ Len(tx.all_accounts_sorted) = 5
    /\ tx.instruction.data = << >>

-----------------------------------------------------------------------------
(* The oracle engine on any snapshot pair: accounts may be missing from the *)
(* pre-snapshot, from the post-snapshot, or from both                       *)

\* snapshot snap without the accounts of K
Without(snap, K) ==
    [ snap EXCEPT !.accounts = [ k \in (DOMAIN @) \ K |-> @[k] ] ]

\* a key that no snapshot holds
GhostKey == 4 + PoolExtra

\* the pre-snapshots handed to Oracles::new for transaction t
AnyPre(t) ==
    LET full == build_snapshot(emu, program_id, elf_bytes, unique_ctr).snapshot
    IN  { full, Without(full, {emu.attacker, emu.user}),
          Without(full, {LastKey(t)}) }

\* events handed to process_event: those of OracleEvents, a satisfied key
\* access and writes to an account that no snapshot holds
AnyEvents(t) ==
    OracleEvents(t)
    \cup { KeyAccess(LastKey(t), << LastKey(t) >>, TRUE),
           WriteLamports(GhostKey, -10000) }

\* snapshot snap after a gain above the IB margin for the attacker and a
\* loss for the user and for the last pool key, where snap holds them
Shifted(snap, t) ==
    [ snap EXCEPT !.accounts =
        [ k \in DOMAIN @ |->
            IF k = emu.attacker
            THEN [ @[k] EXCEPT !.lamports = @ + IbMargin + 1 ]
            ELSE IF k \in {emu.user, LastKey(t)}
            THEN [ @[k] EXCEPT !.lamports = @ - 1 ]
            ELSE @[k] ] ]

\* the post-snapshots handed to finalize
AnyPost(pre, t) ==
    { pre, Shifted(pre, t),
      Without(Shifted(pre, t), {emu.attacker, emu.user}),
      Without(Shifted(pre, t), {LastKey(t)}) }

InitOracleAny ==
    /\ phase = "oracle"
    /\ iters = 1
    /\ iter = 0
    /\ program_id = 1
    /\ elf_bytes = << >>
    /\ emu = EmulatorNew(2)
    /\ unique_ctr = 4 + PoolExtra
    /\ best_cov_hash = U64(0)
    /\ input = << 1, 1, 34, 0 >>
    /\ tx = from_bytes(input, emu, program_id)
    /\ pre_snapshot \in AnyPre(tx)
    /\ \E tn \in { << FALSE, FALSE >>, << TRUE, TRUE >> } :
         vm = [ VmStart(pre_snapshot, tx) EXCEPT
                  !.taint.input_taint = tn[1], !.taint.data_acc_taint = tn[2] ]
    /\ oracles = OraclesNew(Ctx, pre_snapshot)
    /\ signals = NoSignals
    /\ fold_n = 0
    /\ out = NoOutcome
    /\ files = << >>
    /\ io_error = FALSE
    /\ runs = << >>
    /\ exit_code = None

\* process_event on one more event
OracleFeedAny ==
    /\ phase = "oracle"
    /\ fold_n < MaxEvents
    /\ \E ev \in AnyEvents(tx) :
         /\ vm' = [ vm EXCEPT !.events = Append(@, ev) ]
         /\ LET r == process_event(oracles, tx, vm.taint, ev, signals) IN
              /\ oracles' = r.oracles
              /\ signals' = r.signals
    /\ fold_n' = fold_n + 1
    /\ UNCHANGED << exit_code, phase, iters, iter, program_id, elf_bytes, emu,
                    unique_ctr, best_cov_hash, input, pre_snapshot, tx, out,
                    files, io_error, runs >>

\* finalize on a post-snapshot
OracleFinalizeAny ==
    /\ phase = "oracle"
    /\ \E post \in AnyPost(pre_snapshot, tx) :
         /\ vm' = [ vm EXCEPT !.snap = post ]
         /\ signals' = finalize(oracles, tx, pre_snapshot, post, signals)
    /\ phase' = "oracle_done"
    /\ UNCHANGED << exit_code, iters, iter, program_id, elf_bytes, emu, unique_ctr,
                    best_cov_hash, input, pre_snapshot, tx, oracles, fold_n,
                    out, files, io_error, runs >>

NextOracleAny == OracleFeedAny \/ OracleFinalizeAny

SpecOracleAny == InitOracleAny /\ [][NextOracleAny]_vars

\* the names of the six signals
SignalNames == { "msc", "moc", "acpi", "mkc", "ib", "lamports_theft" }

\* no signal goes from true to false in a step
SignalsOnlyRise == \A f \in SignalNames : signals[f] => signals'[f]

\* the signals are six booleans
SignalsWellFormed ==
    DOMAIN signals = SignalNames /\ \A f \in SignalNames : signals[f] \in BOOLEAN

\* C17: within a run no call of process_event or finalize, on any event and
\* any snapshot pair, turns a signal from true to false; each call returns,
\* with the six signals unchanged or some of them set.
C17_SignalsMonotone ==
    /\ [][SignalsOnlyRise]_vars
    /\ [](SignalsWellFormed)
    /\ []((phase = "oracle") => ENABLED OracleFinalizeAny)
    /\ []((phase = "oracle" /\ fold_n < MaxEvents) => ENABLED OracleFeedAny)

\* mkc was raised, a satisfied key access followed, and finalize ran on
\* snapshots that lack the attacker and the user
C17_Witness ==
    /\ phase = "oracle_done"
    /\ signals.mkc
    /\ Len(vm.events) = 2
    /\ vm.events[1] = KeyAccess(LastKey(tx), << >>, TRUE)
    /\ vm.events[2] = KeyAccess(LastKey(tx), << LastKey(tx) >>, TRUE)
    /\ emu.attacker \notin DOMAIN pre_snapshot.accounts
    /\ emu.attacker \notin DOMAIN vm.snap.accounts

-----------------------------------------------------------------------------
(* The signal record on its own: any() and class() on every combination *)

\* the 64 values of OracleSignals
AllSignals ==
    [ msc : BOOLEAN, moc : BOOLEAN, acpi : BOOLEAN, mkc : BOOLEAN,
      ib : BOOLEAN, lamports_theft : BOOLEAN ]

InitSignals ==
    /\ phase = "signals"
    /\ iters = 1
    /\ iter = 0
    /\ program_id = 1
    /\ elf_bytes = << >>
    /\ emu = EmulatorNew(2)
    /\ unique_ctr = 4 + PoolExtra
    /\ best_cov_hash = U64(0)
    /\ input = << >>
    /\ pre_snapshot = NoSnapshot
    /\ tx = NoTx
    /\ vm = NoVm
    /\ oracles = OraclesNew([ program_id |-> 1, attacker |-> 2, user |-> 3 ],
                            NoSnapshot)
    /\ signals \in AllSignals
    /\ fold_n = 0
    /\ out = NoOutcome
    /\ files = << >>
    /\ io_error = FALSE
    /\ runs = << >>
    /\ exit_code = None

\* TransactionEvaluator::evaluate on a result that carries the signals: its
\* is_objective is any() and its report names class()
EvaluateSignals ==
    /\ phase = "signals"
    /\ LET r == evaluate(Exec, best_cov_hash) IN
         /\ out' = r.outcome
         /\ best_cov_hash' = r.best_cov_hash
    /\ phase' = "signals_done"
    /\ UNCHANGED << exit_code, iters, iter, program_id, elf_bytes, emu, unique_ctr,
                    input, pre_snapshot, tx, vm, oracles, signals, fold_n,
                    files, io_error, runs >>

NextSignals == EvaluateSignals

SpecSignals == InitSignals /\ [][NextSignals]_vars

\* the signals by falling priority, with their labels
PriorityOrder ==
    << "lamports_theft", "moc", "msc", "acpi", "mkc", "ib" >>
PriorityLabel ==
    << "LAMPORTS_THEFT", "MOC", "MSC", "ACPI", "MKC", "IB" >>

\* the positions of PriorityOrder whose signal is raised
RaisedRanks == { r \in 1..6 : signals[PriorityOrder[r]] }

\* C12: for each of the 64 combinations class() is the label of the raised
\* signal of highest priority in the order lamports_theft > moc > msc > acpi
\* > mkc > ib, and it is NONE exactly when any() is false.
C12_ClassIsHighestPriority ==
    (phase \in {"signals", "signals_done"}) =>
        /\ RaisedRanks # {} =>
             \E r \in RaisedRanks :
                 /\ \A q \in RaisedRanks : r <= q
                 /\ class(signals) = PriorityLabel[r]
        /\ (class(signals) = "NONE") <=> ~any(signals)
        /\ any(signals) <=> (RaisedRanks # {})
        /\ (phase = "signals_done") =>
             /\ out.is_objective = any(signals)
             /\ out.report.some = any(signals)
             /\ out.report.some =>
                  out.report.value.vuln_class = class(signals)

\* a combination with moc and msc raised together, labelled by the evaluator
C12_Witness ==
    /\ phase = "signals_done"
    /\ signals.moc /\ signals.msc /\ ~signals.lamports_theft
    /\ out.report.some /\ out.report.value.vuln_class = "MOC"

-----------------------------------------------------------------------------
(* TraceVm::run on its own: any transaction, generated or not, on any       *)
(* pre-snapshot                                                             *)

\* instruction data handed to the VM: the bytes of DataBytes, lamport writes
\* of mode 2 and 3 and a data write
VmBytes == DataBytes \cup { 66, 67, 98 }

\* a transaction that lists no account
EmptyListTx(d) ==
    [ signers |-> {}, all_accounts_sorted |-> << >>,
      instruction |-> [ program_id |-> program_id, accounts |-> << >>,
                        data |-> d ] ]

\* a transaction whose only meta names a key that its account list lacks
UnlistedMetaTx(d) ==
    [ signers |-> {emu.attacker}, all_accounts_sorted |-> << emu.user >>,
      instruction |->
          [ program_id |-> program_id,
            accounts |-> << [ pubkey |-> emu.attacker, is_signer |-> TRUE,
                              is_writable |-> TRUE ] >>,
            data |-> d ] ]

\* the transactions handed to TraceVm::run
VmTxs ==
    UNION { { from_bytes(<< 1, 1, 34, 0 >> \o d, emu, program_id),
              from_bytes(<< 2, 0, 16, 5, 8 >> \o d, emu, program_id),
              EmptyListTx(d), UnlistedMetaTx(d) } :
            d \in SeqsUpTo(VmBytes, MaxData) }

\* snapshot snap with every balance set to lamports
WithBalances(snap, lamports) ==
    [ snap EXCEPT !.accounts =
        [ k \in DOMAIN @ |-> [ @[k] EXCEPT !.lamports = lamports ] ] ]

\* the pre-snapshots handed to TraceVm::run: the built one, one with
\* balances below every debit, one that lacks the user
VmSnapshots ==
    LET full == build_snapshot(emu, program_id, elf_bytes, unique_ctr).snapshot
    IN  { full, WithBalances(full, 5000), Without(full, {emu.user}) }

InitVm ==
    /\ phase = "run"
    /\ iters = 1
    /\ iter = 0
    /\ program_id = 1
    /\ elf_bytes = << 127, 69 >>
    /\ emu = EmulatorNew(2)
    /\ unique_ctr = 4 + PoolExtra
    /\ best_cov_hash = U64(0)
    /\ input = << >>
    /\ pre_snapshot \in VmSnapshots
    /\ tx \in VmTxs
    /\ vm = NoVm
    /\ oracles = OraclesNew([ program_id |-> 1, attacker |-> 2, user |-> 3 ],
                            NoSnapshot)
    /\ signals = NoSignals
    /\ fold_n = 0
    /\ out = NoOutcome
    /\ files = << >>
    /\ io_error = FALSE
    /\ runs = << >>
    /\ exit_code = None

NextVm ==
    \/ VmEnter
    \/ VmStepCmp
    \/ VmStepRead
    \/ VmStepWriteLamports
    \/ VmStepWriteData
    \/ VmStepCpi
    \/ VmStepIntegerKey

SpecVm == InitVm /\ [][NextVm]_vars

\* the keys of the metas of the current transaction
MetaKeys ==
    { tx.instruction.accounts[j].pubkey : j \in 1..Len(tx.instruction.accounts) }

\* account k of the VM's snapshot differs from the pre-snapshot in its
\* lamports and in its data bytes at most
SameButLamportsAndBytes(k) ==
    LET a == pre_snapshot.accounts[k]
        b == vm.snap.accounts[k]
    IN  /\ b.owner = a.owner
        /\ b.is_signer = a.is_signer
        /\ b.is_writable = a.is_writable
        /\ b.is_executable = a.is_executable
        /\ Len(b.data) = Len(a.data)

\* what the VM's snapshot keeps of the pre-snapshot
PostKeepsFrame ==
    /\ DOMAIN vm.snap.accounts = DOMAIN pre_snapshot.accounts
    /\ \A k \in DOMAIN pre_snapshot.accounts :
         /\ SameButLamportsAndBytes(k)
         /\ (k \notin ListedKeys) =>
              vm.snap.accounts[k] = pre_snapshot.accounts[k]
    /\ (program_id \in DOMAIN pre_snapshot.accounts
          /\ program_id \notin ListedKeys) =>
         vm.snap.accounts[program_id] = pre_snapshot.accounts[program_id]

\* a VM turn changes a balance only by its WriteLamports event, to the sum
\* when that is not negative and to 0 when it is
LamportStep ==
    (phase = "vm" /\ vm'.i = vm.i + 1) =>
        \A k \in DOMAIN vm.snap.accounts :
            LET old == vm.snap.accounts[k].lamports
                new == vm'.snap.accounts[k].lamports
            IN  IF NewEvents # << >> /\ NewEvents[1].kind = "WriteLamports"
                   /\ NewEvents[1].acct = k
                THEN new = Max(old + NewEvents[1].delta, 0)
                ELSE new = old

ListCoversMetas == tx.all_accounts_sorted # << >> /\ MetaKeys \subseteq ListedKeys

=============================================================================
